---------------------------- MODULE Spec2Model ----------------------------
(***************************************************************************)
(* A model of ggRMCP's gRPC side: the connection manager, the unified      *)
(* service discoverer (catalog, invocation, reconnect loop) and the        *)
(* tools/call handler's dispatch to the discoverer.                        *)
(*                                                                         *)
(* Strings that the code takes apart (service names, header keys) are      *)
(* sequences of one-character strings; strings the code only compares      *)
(* (error texts, JSON payloads, file names) are TLA+ strings.              *)
(***************************************************************************)
EXTENDS Integers, Sequences, FiniteSets, TLC

(***************************************************************************)
(* Bounds of the model and constants of the program.                       *)
(***************************************************************************)

\* Transport identities available for reuse: an identity is free again once
\* neither the connection manager nor the invocation backend refers to it.
NumConns == 3

\* serviceDiscoverer.maxReconnectAttempts
maxReconnectAttempts == 5

\* handleToolsCall: context.WithTimeout(ctx, 30*time.Second)
CallTimeoutSeconds == 30

\* A caller deadline shorter, and one longer, than the handler's timeout.
\* 0 stands for "the context carries no deadline".
NoDeadline == 0
ShortDeadline == 10
LongDeadline == 60

Deadlines == {NoDeadline, ShortDeadline, LongDeadline}

ConnIds == 1..NumConns

\* No transport, no backend.
Nil == 0

(***************************************************************************)
(* Text helpers.                                                           *)
(***************************************************************************)

\* strings.ToLower on one character of the alphabet the model uses.
LowerChar(c) ==
    CASE c = "X" -> "x"
      [] c = "A" -> "a"
      [] c = "S" -> "s"
      [] c = "D" -> "d"
      [] c = "W" -> "w"
      [] c = "M" -> "m"
      [] c = "N" -> "n"
      [] OTHER   -> c

\* strings.ToLower
ToLower(s) == [i \in DOMAIN s |-> LowerChar(s[i])]

\* All orders in which a finite set can be enumerated (Go map iteration).
Orders(S) ==
    {f \in [1..Cardinality(S) -> S] : \A i, j \in 1..Cardinality(S) : i # j => f[i] # f[j]}

(***************************************************************************)
(* connectivity.State of a transport.  "Free" marks an identity no         *)
(* component refers to.                                                    *)
(***************************************************************************)

Idle == "Idle"
Connecting == "Connecting"
Ready == "Ready"
TransientFailure == "TransientFailure"
Shutdown == "Shutdown"

LiveStates == {Idle, Connecting, Ready, TransientFailure}

(***************************************************************************)
(* The universe of names, payloads, headers and discovery results.         *)
(***************************************************************************)

\* "h.S", "d.D" are services some source knows; "n.X" is known to none.
SvcHello == <<"h", ".", "S">>
SvcData == <<"d", ".", "D">>
SvcNone == <<"n", ".", "X">>
ServiceNames == {SvcHello, SvcData, SvcNone}

MthDo == <<"D", "o">>
MthWatch == <<"W">>
MthSend == <<"S">>
MthNone == <<"X">>
MethodNames == {MthDo, MthWatch, MthSend, MthNone}

\* MethodInfo (the fields the discoverer reads or copies).
MethodInfo(name, description, cs, ss) ==
    [Name |-> name, Description |-> description,
     IsClientStreaming |-> cs, IsServerStreaming |-> ss]

\* ServiceInfo; FileDescriptor is "nil" when the field is left unset.
ServiceInfo(name, methods, fd) ==
    [Name |-> name, Methods |-> methods, FileDescriptor |-> fd]

\* What descriptorLoader.ExtractServiceInfo can return: the services of the
\* descriptor-set file, with comment-derived descriptions.
EnhHello ==
    [Name |-> SvcHello,
     Methods |-> << MethodInfo(MthDo, "does", FALSE, FALSE),
                    MethodInfo(MthSend, "sends", TRUE, FALSE) >>]
EnhData ==
    [Name |-> SvcData,
     Methods |-> << MethodInfo(MthDo, "data", FALSE, FALSE) >>]
FdSetContents == { <<EnhHello>>, <<EnhHello, EnhData>> }

\* What reflectionClient.DiscoverServices can return: the services of the
\* live server, each with the file descriptor it was extracted from.
ReflHello ==
    ServiceInfo(SvcHello,
                << MethodInfo(MthDo, "", FALSE, FALSE),
                   MethodInfo(MthWatch, "", FALSE, TRUE) >>,
                "hello.proto")
ReflData ==
    ServiceInfo(SvcData, << MethodInfo(MthDo, "", FALSE, FALSE) >>, "data.proto")
ReflectionResults == { <<ReflHello>>, <<ReflData, ReflHello>>, << >> }

\* JSON argument payloads; ValidJSON are those protojson can decode into the
\* input type.
InputJSONs == {"", "{}", "{\"name\":\"x\"}", "{\"bad\":1}"}
ValidJSON == {"{}", "{\"name\":\"x\"}"}

\* Header keys ("X-a" and "x-a" differ only in case) and header maps.
KeyXa == <<"X", "-", "a">>
Keyxa == <<"x", "-", "a">>
Keyb == <<"b">>
NoHeaders == <<>>
HeaderMaps ==
    { NoHeaders,
      [k \in {KeyXa} |-> "1"],
      [k \in {Keyb} |-> "3"],
      [k \in {KeyXa, Keyxa} |-> IF k = KeyXa THEN "1" ELSE "2"] }

\* Outgoing metadata a caller's context may already carry: key/value pairs
\* in the order they were appended.
PreMetadata == { <<>>, << <<Keyxa, "0">> >> }

\* context.Context as the code uses it: the deadline (seconds from now,
\* NoDeadline when none) and the outgoing metadata.
Contexts == [deadline : Deadlines, md : PreMetadata]

(***************************************************************************)
(* State.                                                                  *)
(***************************************************************************)

VARIABLES
    cmConn,            \* connectionManager.conn: Nil or a transport identity
    connState,         \* connectivity state of every transport identity
    reflectionClient,  \* serviceDiscoverer.reflectionClient
    services,          \* serviceDiscoverer.services: name -> ServiceInfo
    descriptorConfig,  \* serviceDiscoverer.descriptorConfig
    rc,                \* the Reconnect call in progress, if any
    lastInvoke,        \* history: the last invocation entry point that ran
    lastDiscover,      \* history: the last DiscoverServices call that ran
    dp,                \* the DiscoverServices pass running beside readers, if any
    held,              \* the map a caller got from GetServices, and later reads
    closeLog,          \* history: what a Close that ran last closed
    pf,                \* argument and result of the last function applied
    descs,             \* the message descriptors known: full name -> fields
    schemaCache,       \* Builder.schemaCache: full name -> generated schema
    lastConnect,       \* history: the last Connect call that ran
    locks,             \* serviceDiscoverer.mu and connectionManager.mu
    goroutines         \* the calls in progress: operation and position

cmVars == <<cmConn, connState>>
dVars == <<reflectionClient, services, descriptorConfig>>
histVars == <<lastInvoke, lastDiscover, lastConnect>>
schemaVars == <<descs, schemaCache>>
lockVars == <<locks, goroutines>>
auxVars == <<dp, held, pf, schemaVars, lockVars>>
vars == <<cmConn, connState, reflectionClient, services, descriptorConfig, rc,
          lastInvoke, lastDiscover, dp, held, closeLog, pf, descs, schemaCache,
          lastConnect, locks, goroutines>>

(***************************************************************************)
(* Connection manager.  Its operations are written as operators from the   *)
(* manager's state and the environment's answers (does the dial succeed,   *)
(* which state is the transport in, does the state change in time) to the  *)
(* state afterwards and the error returned ("" for nil).                   *)
(***************************************************************************)

\* conn.Close(): the transport ends in Shutdown.
CloseTransport(cs, id) == [cs EXCEPT ![id] = Shutdown]

\* The identity grpc.DialContext hands out: one nobody refers to.
FreshConn(cs) == CHOOSE id \in ConnIds : cs[id] = "Free" /\ \A j \in ConnIds : cs[j] = "Free" => id <= j

\* Identities no component refers to any more are forgotten.
Collect(cs, conn, client) ==
    [id \in ConnIds |-> IF id = conn \/ (~client.isNil /\ id = client.conn) THEN cs[id] ELSE "Free"]

\* healthCheckLocked: context.WithTimeout(ctx, 5*time.Second)
HealthTimeoutSeconds == 5

\* A caller deadline shorter than the probe's timeout.
TightDeadline == 3

\* What the transport does while the probe waits: whether its state changes
\* at all, and after how many seconds.
StateChanges ==
    [happens : {TRUE}, at : {2, 4, 7}] \cup [happens : {FALSE}, at : {7}]

\* Mutant of WaitForStateChange: the wait has no end.
WaitForStateChangeUnbounded(healthCtx, change) == change.happens

\* conn.WaitForStateChange(healthCtx, state): true when the state changes
\* before the context ends.
WaitForStateChange(healthCtx, change) ==
    /\ change.happens
    /\ healthCtx.deadline = NoDeadline \/ change.at < healthCtx.deadline

\* connectionManager.healthCheckLocked.  changed: WaitForStateChange returned
\* true; st2: the state the transport is in after the change; waited:
\* WaitForStateChange was called.
healthCheckLocked(conn, cs, changed, st2) ==
    IF conn = Nil THEN [err |-> "no connection available", cs |-> cs, waited |-> FALSE]
    ELSE IF cs[conn] \in {TransientFailure, Shutdown}
        THEN [err |-> "connection is in unhealthy state", cs |-> cs, waited |-> FALSE]
    ELSE IF cs[conn] # Ready
        THEN IF ~changed
             THEN [err |-> "connection state did not change within timeout", cs |-> cs,
                   waited |-> TRUE]
             ELSE IF st2 # Ready
                 THEN [err |-> "connection failed to become ready",
                       cs |-> [cs EXCEPT ![conn] = st2], waited |-> TRUE]
                 ELSE [err |-> "", cs |-> [cs EXCEPT ![conn] = st2], waited |-> TRUE]
    ELSE [err |-> "", cs |-> cs, waited |-> FALSE]

\* Mutant of cmConnect: a transport whose probe fails is kept.
cmConnectKeeping(conn, cs, dialOk, st, changed, st2) ==
    LET cs1 == IF conn # Nil THEN CloseTransport(cs, conn) ELSE cs
    IN  IF ~dialOk
        THEN [conn |-> conn, cs |-> cs1, err |-> "failed to connect to gRPC server",
              dialed |-> Nil]
        ELSE LET n == FreshConn(cs1)
                 cs2 == [cs1 EXCEPT ![n] = st]
                 hc == healthCheckLocked(n, cs2, changed, st2)
             IN  [conn |-> n, cs |-> hc.cs,
                  err |-> IF hc.err # "" THEN "health check failed" ELSE "",
                  dialed |-> n]

\* connectionManager.Connect.  dialOk: grpc.DialContext returned a transport;
\* st: the state that transport is in when the probe reads it.
cmConnect(conn, cs, dialOk, st, changed, st2) ==
    LET cs1 == IF conn # Nil THEN CloseTransport(cs, conn) ELSE cs
    IN  IF ~dialOk
        THEN [conn |-> conn, cs |-> cs1, err |-> "failed to connect to gRPC server",
              dialed |-> Nil]
        ELSE LET n == FreshConn(cs1)
                 cs2 == [cs1 EXCEPT ![n] = st]
                 hc == healthCheckLocked(n, cs2, changed, st2)
             IN  IF hc.err # ""
                 THEN [conn |-> Nil, cs |-> CloseTransport(hc.cs, n),
                       err |-> "health check failed", dialed |-> n]
                 ELSE [conn |-> n, cs |-> hc.cs, err |-> "", dialed |-> n]

\* connectionManager.Reconnect
cmReconnect(conn, cs, dialOk, st, changed, st2) ==
    cmConnect(conn, cs, dialOk, st, changed, st2)

\* connectionManager.GetConnection
GetConnection(conn) == conn

\* Mutant of cmIsConnected: an idle transport does not count.
cmIsConnectedReadyOnly(conn, cs) ==
    IF conn = Nil THEN FALSE ELSE cs[conn] = Ready

\* connectionManager.IsConnected
cmIsConnected(conn, cs) ==
    IF conn = Nil THEN FALSE ELSE cs[conn] = Ready \/ cs[conn] = Idle

\* Mutant of cmClose: the handle is not cleared.
cmCloseKeeping(conn, cs) ==
    IF conn # Nil
    THEN [conn |-> conn, cs |-> CloseTransport(cs, conn),
          err |-> IF cs[conn] = Shutdown THEN "grpc: the client connection is closing" ELSE ""]
    ELSE [conn |-> Nil, cs |-> cs, err |-> ""]

\* connectionManager.Close: closing a transport that is already shut down
\* returns the transport's error; the handle is cleared either way.
cmClose(conn, cs) ==
    IF conn # Nil
    THEN [conn |-> Nil, cs |-> CloseTransport(cs, conn),
          err |-> IF cs[conn] = Shutdown THEN "grpc: the client connection is closing" ELSE ""]
    ELSE [conn |-> Nil, cs |-> cs, err |-> ""]

\* The answers the environment can give to one Connect.
DialAnswers ==
    {a \in [dialOk : BOOLEAN, st : LiveStates, changed : BOOLEAN, st2 : LiveStates] :
        /\ a.st2 # a.st
        /\ (~a.dialOk => a.st = Idle /\ ~a.changed /\ a.st2 = Ready)
        /\ (~a.changed => a.st2 = IF a.st = Ready THEN Idle ELSE Ready)}

(***************************************************************************)
(* Contexts and outgoing metadata (the parts of context and grpc/metadata  *)
(* the code relies on).                                                    *)
(***************************************************************************)

\* Mutant of WithTimeout: the new timeout replaces the parent's deadline.
WithTimeoutReplacing(ctx, t) == [ctx EXCEPT !.deadline = t]

\* context.WithTimeout(ctx, t): the earlier of the parent's deadline and t.
WithTimeout(ctx, t) ==
    [ctx EXCEPT !.deadline = IF ctx.deadline = NoDeadline \/ t < ctx.deadline
                             THEN t ELSE ctx.deadline]

\* Mutant of AppendToOutgoingContext: the pair replaces the metadata, as
\* metadata.NewOutgoingContext would.
ReplaceOutgoingContext(ctx, key, value) == [ctx EXCEPT !.md = << <<key, value>> >>]

\* metadata.AppendToOutgoingContext(ctx, key, value)
AppendToOutgoingContext(ctx, key, value) ==
    [ctx EXCEPT !.md = Append(ctx.md, <<key, value>>)]

\* metadata.FromOutgoingContext(ctx).Get(key): keys compare in lower case,
\* values come in the order they were appended.
RECURSIVE mdGet(_, _)
mdGet(md, key) ==
    IF md = <<>> THEN <<>>
    ELSE IF ToLower(Head(md)[1]) = ToLower(key)
         THEN <<Head(md)[2]>> \o mdGet(Tail(md), key)
         ELSE mdGet(Tail(md), key)

(***************************************************************************)
(* Invocation backend (reflectionClient), as far as the discoverer sees    *)
(* it.  The answers of the server are inputs.                              *)
(***************************************************************************)

\* reflectionClient.fdCache as NewReflectionClient makes it
EmptyFdCache == <<>>

NilClient == [isNil |-> TRUE, conn |-> Nil, fdCache |-> EmptyFdCache]

\* NewReflectionClient(conn, logger)
NewReflectionClient(conn) == [isNil |-> FALSE, conn |-> conn, fdCache |-> EmptyFdCache]

CallAnswers == {"ok", "call_failed", "marshal_failed"}

\* dynamicpb.NewMessage: a message with no field set
EmptyMessage == <<>>

\* protojson.Unmarshal into the input type: the fields the payload sets
protojsonUnmarshal(inputJSON) ==
    IF inputJSON = "{}" THEN [err |-> "", msg |-> EmptyMessage]
    ELSE IF inputJSON = "{\"name\":\"x\"}" THEN [err |-> "", msg |-> [name |-> "x"]]
    ELSE [err |-> "proto: syntax error or unknown field", msg |-> EmptyMessage]

\* a mutant of SkipsDecoding: every payload is decoded
DecodesAlways(inputJSON) == FALSE

\* reflectionClient.InvokeMethod, the payloads that are not decoded
SkipsDecoding(inputJSON) == inputJSON = "" \/ inputJSON = "{}"

\* reflectionClient.InvokeMethod.  wire: conn.Invoke was reached; inputMsg:
\* the input message built.
reflInvokeMethod(client, cs, ctx, method, inputJSON, answer) ==
    LET decoded == IF SkipsDecoding(inputJSON)
                   THEN [err |-> "", msg |-> EmptyMessage]
                   ELSE protojsonUnmarshal(inputJSON)
    IN  IF decoded.err # ""
        THEN [out |-> "", err |-> "failed to parse input JSON", wire |-> FALSE,
              inputMsg |-> decoded.msg]
        ELSE IF cs[client.conn] = Shutdown \/ answer = "call_failed"
        THEN [out |-> "", err |-> "gRPC call failed", wire |-> TRUE,
              inputMsg |-> decoded.msg]
        ELSE IF answer = "marshal_failed"
        THEN [out |-> "", err |-> "failed to marshal output to JSON", wire |-> TRUE,
              inputMsg |-> decoded.msg]
        ELSE [out |-> "{\"reply\":1}", err |-> "", wire |-> TRUE,
              inputMsg |-> decoded.msg]

\* reflectionClient.HealthCheck: listServices under a 5 s timeout.
reflHealthCheck(client, cs, listOk) ==
    IF cs[client.conn] = Shutdown \/ ~listOk THEN "health check failed" ELSE ""

\* reflectionClient.DiscoverServices: fails when listing fails, otherwise
\* returns the services that resolved.
reflDiscoverServices(client, cs, listOk, found) ==
    IF cs[client.conn] = Shutdown \/ ~listOk
    THEN [services |-> <<>>, err |-> "failed to list services"]
    ELSE [services |-> found, err |-> ""]

(***************************************************************************)
(* Service discoverer: catalog reads and invocation.                       *)
(***************************************************************************)

ErrNotConnected == "not connected to gRPC server"
ErrNotFound == "method not found"
ErrStreaming == "streaming methods are not supported"
ErrInvoke == "failed to invoke method"

NoMethod == MethodInfo(<<>>, "", FALSE, FALSE)

\* serviceDiscoverer.GetService
GetService(svcs, name) ==
    IF name \in DOMAIN svcs
    THEN [service |-> svcs[name], exists |-> TRUE]
    ELSE [service |-> ServiceInfo(<<>>, <<>>, "nil"), exists |-> FALSE]

\* Mutant of GetMethod: the method name is not compared, the first method of
\* the service is returned.
GetMethodFirst(svcs, serviceName, methodName) ==
    LET s == GetService(svcs, serviceName)
    IN  IF ~s.exists \/ s.service.Methods = <<>>
        THEN [method |-> NoMethod, exists |-> FALSE]
        ELSE [method |-> s.service.Methods[1], exists |-> TRUE]

\* serviceDiscoverer.GetMethod: the first method of the service with that name.
GetMethod(svcs, serviceName, methodName) ==
    LET s == GetService(svcs, serviceName)
        hits == {i \in DOMAIN s.service.Methods : s.service.Methods[i].Name = methodName}
    IN  IF ~s.exists \/ hits = {}
        THEN [method |-> NoMethod, exists |-> FALSE]
        ELSE [method |-> s.service.Methods[CHOOSE i \in hits : \A j \in hits : i <= j],
              exists |-> TRUE]

\* Mutant of IsStreaming: the server-streaming flag is not looked at.
IsStreamingClientOnly(method) == method.IsClientStreaming

\* serviceDiscoverer.InvokeMethod, the test for streaming methods.
IsStreaming(method) == method.IsClientStreaming \/ method.IsServerStreaming

\* Mutant of NotConnected: the backend is never found missing.
NotConnectedSkipped(client) == FALSE

\* serviceDiscoverer.InvokeMethod and InvokeMethodWithHeaders, the test for a
\* missing backend.
NotConnected(client) == client.isNil

\* serviceDiscoverer.InvokeMethod.  backend lists the calls made on
\* reflectionClient.InvokeMethod (none or one).
InvokeMethod(client, svcs, cs, ctx, serviceName, methodName, inputJSON, answer) ==
    IF NotConnected(client)
    THEN [out |-> "", err |-> ErrNotConnected, backend |-> <<>>]
    ELSE LET m == GetMethod(svcs, serviceName, methodName)
         IN  IF ~m.exists
             THEN [out |-> "", err |-> ErrNotFound, backend |-> <<>>]
             ELSE IF IsStreaming(m.method)
             THEN [out |-> "", err |-> ErrStreaming, backend |-> <<>>]
             ELSE LET r == reflInvokeMethod(client, cs, ctx, m.method, inputJSON, answer)
                      call == [ctx |-> ctx, method |-> m.method, inputJSON |-> inputJSON,
                               wire |-> r.wire, inputMsg |-> r.inputMsg, err |-> r.err]
                  IN  IF r.err # ""
                      THEN [out |-> "", err |-> ErrInvoke, backend |-> <<call>>]
                      ELSE [out |-> r.out, err |-> "", backend |-> <<call>>]

\* The loop "for key, value := range headers": the headers are appended in
\* the order the map yields them.
RECURSIVE AppendHeaders(_, _, _)
AppendHeaders(ctx, headers, order) ==
    IF order = <<>> THEN ctx
    ELSE AppendHeaders(AppendToOutgoingContext(ctx, Head(order), headers[Head(order)]),
                       headers, Tail(order))

\* serviceDiscoverer.InvokeMethodWithHeaders
InvokeMethodWithHeaders(client, svcs, cs, ctx, headers, order, serviceName, methodName, inputJSON, answer) ==
    IF NotConnected(client)
    THEN [out |-> "", err |-> ErrNotConnected, backend |-> <<>>]
    ELSE InvokeMethod(client, svcs, cs, AppendHeaders(ctx, headers, order),
                      serviceName, methodName, inputJSON, answer)

(***************************************************************************)
(* Service discoverer: discovery, connect, close.                          *)
(***************************************************************************)

EmptyCatalog == <<>>

\* "for _, service := range list { d.services[service.Name] = service }":
\* a later entry of the same name replaces an earlier one.
CatalogOf(list) ==
    [n \in {list[i].Name : i \in DOMAIN list} |->
        list[CHOOSE i \in DOMAIN list :
                /\ list[i].Name = n
                /\ \A j \in DOMAIN list : list[j].Name = n => j <= i]]

\* discoverFromFileDescriptor, the conversion of one enhanced service.
FromEnhanced(e) == ServiceInfo(e.Name, e.Methods, "nil")

FdAnswers == {"load_failed", "registry_failed", "extract_failed", "ok"}

\* serviceDiscoverer.discoverFromFileDescriptor.  answer: how far the
\* descriptor loader gets; content: what ExtractServiceInfo returns.
discoverFromFileDescriptor(svcs, answer, content) ==
    IF answer = "load_failed"
    THEN [services |-> svcs, err |-> "failed to load descriptor set"]
    ELSE IF answer = "registry_failed"
    THEN [services |-> svcs, err |-> "failed to build file registry"]
    ELSE IF answer = "extract_failed"
    THEN [services |-> EmptyCatalog, err |-> "failed to extract enhanced service info"]
    ELSE [services |-> CatalogOf([i \in DOMAIN content |-> FromEnhanced(content[i])]),
          err |-> ""]

\* Mutant of discoverFromReflection: the catalog is not cleared before the
\* services found are stored.
discoverFromReflectionMerging(svcs, client, cs, listOk, found) ==
    LET r == reflDiscoverServices(client, cs, listOk, found)
        new == CatalogOf(r.services)
    IN  IF r.err # ""
        THEN [services |-> svcs, err |-> "failed to discover services via reflection"]
        ELSE [services |-> [n \in (DOMAIN svcs) \cup (DOMAIN new) |->
                               IF n \in DOMAIN new THEN new[n] ELSE svcs[n]],
              err |-> ""]

\* serviceDiscoverer.discoverFromReflection
discoverFromReflection(svcs, client, cs, listOk, found) ==
    LET r == reflDiscoverServices(client, cs, listOk, found)
    IN  IF r.err # ""
        THEN [services |-> svcs, err |-> "failed to discover services via reflection"]
        ELSE [services |-> CatalogOf(r.services), err |-> ""]

\* DiscoverServices, the test that selects the descriptor store.
UseDescriptorStore(cfg) == cfg.Enabled /\ cfg.Path # ""

\* serviceDiscoverer.DiscoverServices.  attempted: the sources tried, in
\* order.
DiscoverServices(client, svcs, cs, cfg, fdAnswer, content, listOk, found) ==
    IF client.isNil
    THEN [services |-> svcs, err |-> ErrNotConnected, attempted |-> <<>>]
    ELSE LET fd == discoverFromFileDescriptor(svcs, fdAnswer, content)
         IN  IF UseDescriptorStore(cfg) /\ fd.err = ""
             THEN [services |-> fd.services, err |-> "", attempted |-> <<"descriptor">>]
             ELSE LET before == IF UseDescriptorStore(cfg) THEN fd.services ELSE svcs
                      r == discoverFromReflection(before, client, cs, listOk, found)
                  IN  [services |-> r.services, err |-> r.err,
                       attempted |-> IF UseDescriptorStore(cfg)
                                     THEN <<"descriptor", "reflection">>
                                     ELSE <<"reflection">>]

\* The answers the environment can give to one DiscoverServices.
DiscoverAnswers ==
    {a \in [fd : FdAnswers, content : FdSetContents,
            listOk : BOOLEAN, found : ReflectionResults] :
        /\ (a.fd # "ok" => a.content = <<EnhHello>>)
        /\ (~a.listOk => a.found = <<>>)}

(***************************************************************************)
(* tools/call handler: tool names and the dispatch to the discoverer.      *)
(***************************************************************************)

\* strings.ReplaceAll(s, old, new) for one-character old and new.
ReplaceAll(s, old, new) == [i \in DOMAIN s |-> IF s[i] = old THEN new ELSE s[i]]

\* Builder.generateToolName, and the same derivation in Handler.parseToolName
generateToolName(serviceName, methodName) ==
    ToLower(ReplaceAll(serviceName, ".", "_")) \o <<"_">> \o ToLower(methodName)

\* Handler.parseToolName: the loop over the catalog returns at the first
\* method whose derived name equals toolName.  Within a service that is the
\* first such method of the list; the services come in the map's order, so
\* the result may be that method of any service that has one.  The set of
\* the (service, method) pairs it can return; empty for the error.
parseToolName(svcs, toolName) ==
    LET hits(sn) == {i \in DOMAIN svcs[sn].Methods :
                        generateToolName(sn, svcs[sn].Methods[i].Name) = toolName}
        first(sn) == CHOOSE i \in hits(sn) : \A j \in hits(sn) : i <= j
    IN  {<<sn, svcs[sn].Methods[first(sn)].Name>> :
            sn \in {n \in DOMAIN svcs : hits(n) # {}}}

\* Tool names a client may send.
ToolNames == {generateToolName(sn, mn) : sn \in ServiceNames, mn \in MethodNames}

(***************************************************************************)
(* History records.                                                        *)
(***************************************************************************)

BackgroundCtx == [deadline |-> NoDeadline, md |-> <<>>]

NoInvoke ==
    [op |-> "none", via |-> "none", callerCtx |-> BackgroundCtx, ctx |-> BackgroundCtx,
     headers |-> NoHeaders, serviceName |-> <<>>, methodName |-> <<>>, inputJSON |-> "",
     hadClient |-> FALSE, out |-> "", err |-> "", backend |-> <<>>]

Invoked(op, via, callerCtx, ctx, headers, sn, mn, inputJSON, hadClient, r) ==
    [op |-> op, via |-> via, callerCtx |-> callerCtx, ctx |-> ctx, headers |-> headers,
     serviceName |-> sn, methodName |-> mn, inputJSON |-> inputJSON,
     hadClient |-> hadClient, out |-> r.out, err |-> r.err, backend |-> r.backend]

NoDiscover ==
    [op |-> "none", hadClient |-> FALSE, fd |-> "ok", content |-> <<>>,
     listOk |-> FALSE, found |-> <<>>, err |-> "", attempted |-> <<>>]

Discovered(hadClient, a, r) ==
    [op |-> "DiscoverServices", hadClient |-> hadClient, fd |-> a.fd, content |-> a.content,
     listOk |-> a.listOk, found |-> a.found, err |-> r.err, attempted |-> r.attempted]

\* No DiscoverServices pass is running beside readers.  pc: "fd" before
\* discoverFromFileDescriptor, "refl" before discoverFromReflection, "done"
\* after the pass; prev: the catalog when the pass began; seen: what readers
\* saw while it ran; final: the catalog when it returned.
DpIdle ==
    [pc |-> "idle", a |-> [fd |-> "ok", content |-> <<>>, listOk |-> FALSE, found |-> <<>>],
     prev |-> EmptyCatalog, seen |-> {}, final |-> EmptyCatalog, err |-> ""]

\* No map is held by a caller.  alias: the map is the catalog's own map;
\* m: its entries; orig: its entries when GetServices returned it; op: what
\* the caller did to it last.
NoHeld == [has |-> FALSE, alias |-> FALSE, m |-> EmptyCatalog, orig |-> EmptyCatalog,
           op |-> "none"]

\* "d.services = make(map[string]ServiceInfo)": the catalog is a new map, a
\* map handed out earlier is no longer the catalog's.
Detached(h) == [h EXCEPT !.alias = FALSE]

\* No Close has run.
NoCloseLog ==
    [ran |-> FALSE, byClient |-> Nil, byManager |-> Nil, twice |-> FALSE, cmErr |-> ""]

\* No function has been applied.
NoPf == [op |-> "none"]

\* Errors of Reconnect's attempts: the attempt that produced it and its text.
NoErr == [attempt |-> 0, what |-> "nil"]

ErrAt(n, what) == [attempt |-> n, what |-> what]

\* What a Reconnect call returned: nil ("ok"), ctx.Err() ("ctx") or the
\* error after the last attempt ("exhausted", with the count it prints and
\* the error it wraps).
NoResult == [kind |-> "none", attempts |-> 0, wraps |-> NoErr]

\* No Reconnect call has been made.  pc: where the call is ("try": about to
\* run an attempt, "wait": in the select between attempts, "done":
\* returned); i, lastErr: the loop's variables; ctxDone: ctx.Done() is
\* closed; wake: the case the select was woken by; the rest is history
\* (where the call was when the context became done, calls of
\* connManager.Reconnect, selects entered, attempts that failed).
RcIdle ==
    [pc |-> "idle", i |-> 0, lastErr |-> NoErr, ctxDone |-> FALSE,
     cancelledAtCall |-> FALSE, cancelledIn |-> "none", wake |-> "none",
     attempts |-> 0, waits |-> 0, failures |-> 0, result |-> NoResult]

\* No Connect has run.
NoConnect == [op |-> "none", err |-> ""]

ConnectReturned(err) == [op |-> "Connect", err |-> err]

(***************************************************************************)
(* sync.RWMutex.  readers: how many read locks each goroutine holds;       *)
(* writer: the goroutine holding the write lock, if any; waiting: the      *)
(* goroutines blocked in Lock.  A blocked Lock keeps new readers out.      *)
(***************************************************************************)
\* how many goroutines make calls side by side
NumGoroutines == 2
Procs == 1..NumGoroutines

FreeMutex == [readers |-> [g \in Procs |-> 0], writer |-> {}, waiting |-> {}]

CanRLock(m) == m.writer = {} /\ m.waiting = {}
RLock(m, g) == [m EXCEPT !.readers[g] = @ + 1]
RUnlock(m, g) == [m EXCEPT !.readers[g] = @ - 1]
LockRequested(m, g) == [m EXCEPT !.waiting = @ \cup {g}]
CanLock(m) == m.writer = {} /\ \A h \in Procs : m.readers[h] = 0
Lock(m, g) == [m EXCEPT !.writer = {g}, !.waiting = @ \ {g}]
Unlock(m, g) == [m EXCEPT !.writer = {}]

\* d.mu of the discoverer and cm.mu of the connection manager
FreeLocks == [d |-> FreeMutex, cm |-> FreeMutex]

\* No call is in progress.
IdleCall == [op |-> "none", at |-> 0, seen |-> NilClient, panic |-> FALSE]
NoCalls == [g \in Procs |-> IdleCall]

(***************************************************************************)
(* Actions of the discoverer and of the handler.                           *)
(***************************************************************************)

\* What serviceDiscoverer.Connect returns.
ErrCmConnect == "failed to connect via connection manager"
ErrNilConnection == "connection manager returned nil connection"
ErrHealthCheck == "health check failed"

\* serviceDiscoverer.Connect, its answers drawn from the given sets.
\* healthy: the new reflection client's HealthCheck can list the services.
ConnectWith(Dials, Healths) ==
    \E a \in Dials, healthy \in Healths :
        LET r == cmConnect(cmConn, connState, a.dialOk, a.st, a.changed, a.st2)
            conn == GetConnection(r.conn)
            created == r.err = "" /\ conn # Nil
            client == IF created THEN NewReflectionClient(conn) ELSE reflectionClient
            cs == Collect(r.cs, r.conn, client)
        IN  /\ created \/ healthy
            /\ cmConn' = r.conn
            /\ reflectionClient' = client
            /\ connState' = cs
            /\ lastConnect' =
                 ConnectReturned(IF r.err # "" THEN ErrCmConnect
                                 ELSE IF conn = Nil THEN ErrNilConnection
                                 ELSE IF reflHealthCheck(client, cs, healthy) # ""
                                 THEN ErrHealthCheck
                                 ELSE "")
            /\ lastInvoke' = NoInvoke
            /\ lastDiscover' = NoDiscover
            /\ closeLog' = NoCloseLog
            /\ UNCHANGED <<services, descriptorConfig, dp, held, pf, schemaVars, rc>>

\* serviceDiscoverer.Connect
Connect == ConnectWith(DialAnswers, BOOLEAN) /\ UNCHANGED lockVars

\* serviceDiscoverer.DiscoverServices, its answers drawn from the given set
DiscoverWith(Answers) ==
    \E a \in Answers :
        LET r == DiscoverServices(reflectionClient, services, connState, descriptorConfig,
                                  a.fd, a.content, a.listOk, a.found)
            replaced == \/ (r.err = "" /\ r.attempted # <<>>)
                        \/ (r.attempted # <<>> /\ r.attempted[1] = "descriptor"
                            /\ a.fd \in {"ok", "extract_failed"})
        IN  /\ services' = r.services
            /\ held' = IF replaced THEN Detached(held) ELSE held
            /\ lastDiscover' = Discovered(~reflectionClient.isNil, a, r)
            /\ lastInvoke' = NoInvoke
            /\ lastConnect' = NoConnect
            /\ closeLog' = NoCloseLog
            /\ UNCHANGED <<cmConn, connState, reflectionClient, descriptorConfig, rc, dp, pf, schemaVars>>

\* serviceDiscoverer.DiscoverServices
Discover == DiscoverWith(DiscoverAnswers) /\ UNCHANGED lockVars

\* An answer of the server matters only to a call that reaches the wire.
AnswerUsed(r, answer) ==
    answer = "ok" \/ (r.backend # <<>> /\ r.backend[1].wire)

\* A direct call of serviceDiscoverer.InvokeMethod, with its arguments drawn
\* from the given sets (targets are (service, method) pairs).
CallInvokeMethod(Ctxs, Targets, Inputs) ==
    \E ctx \in Ctxs, t \in Targets, inputJSON \in Inputs, answer \in CallAnswers :
        LET r == InvokeMethod(reflectionClient, services, connState, ctx, t[1], t[2],
                              inputJSON, answer)
        IN  /\ AnswerUsed(r, answer)
            /\ lastInvoke' = Invoked("InvokeMethod", "direct", ctx, ctx, NoHeaders,
                                     t[1], t[2], inputJSON, ~reflectionClient.isNil, r)
            /\ lastDiscover' = NoDiscover
            /\ lastConnect' = NoConnect
            /\ closeLog' = NoCloseLog
            /\ UNCHANGED <<cmConn, connState, reflectionClient, services,
                           descriptorConfig, auxVars, rc>>

\* A direct call of serviceDiscoverer.InvokeMethodWithHeaders
CallInvokeMethodWithHeaders(Ctxs, Headers, Targets, Inputs) ==
    \E ctx \in Ctxs, headers \in Headers, t \in Targets, inputJSON \in Inputs,
       answer \in CallAnswers :
        \E order \in Orders(DOMAIN headers) :
            LET r == InvokeMethodWithHeaders(reflectionClient, services, connState, ctx,
                                             headers, order, t[1], t[2], inputJSON, answer)
            IN  /\ AnswerUsed(r, answer)
                /\ lastInvoke' = Invoked("InvokeMethodWithHeaders", "direct", ctx, ctx,
                                         headers, t[1], t[2], inputJSON,
                                         ~reflectionClient.isNil, r)
                /\ lastDiscover' = NoDiscover
                /\ lastConnect' = NoConnect
                /\ closeLog' = NoCloseLog
                /\ UNCHANGED <<cmConn, connState, reflectionClient, services,
                               descriptorConfig, auxVars, rc>>

\* Handler.handleToolsCall, for parameters that pass validation: the tool
\* name is parsed, the context gets the handler's timeout, and the call goes
\* to InvokeMethodWithHeaders when headers are left after filtering, to
\* InvokeMethod otherwise.  The tool names are those of the given targets.
HandleToolsCall(Ctxs, Headers, Targets, Inputs) ==
    \E ctx \in Ctxs, t \in Targets, headers \in Headers, inputJSON \in Inputs,
       answer \in CallAnswers :
        LET toolName == generateToolName(t[1], t[2])
            parsed == parseToolName(services, toolName)
            ctx2 == WithTimeout(ctx, CallTimeoutSeconds)
            had == ~reflectionClient.isNil
        IN  /\ IF parsed = {}
               THEN /\ answer = "ok"
                    /\ lastInvoke' =
                        Invoked("parseToolName", "handleToolsCall", ctx, ctx, headers,
                                <<>>, <<>>, inputJSON, had,
                                [out |-> "", err |-> "invalid tool name", backend |-> <<>>])
               ELSE \E p \in parsed, order \in Orders(DOMAIN headers) :
                        LET r == IF Cardinality(DOMAIN headers) > 0
                                 THEN InvokeMethodWithHeaders(
                                          reflectionClient, services, connState, ctx2,
                                          headers, order, p[1], p[2], inputJSON, answer)
                                 ELSE InvokeMethod(reflectionClient, services, connState,
                                                   ctx2, p[1], p[2], inputJSON, answer)
                        IN  /\ AnswerUsed(r, answer)
                            /\ lastInvoke' =
                                 Invoked(IF Cardinality(DOMAIN headers) > 0
                                         THEN "InvokeMethodWithHeaders" ELSE "InvokeMethod",
                                         "handleToolsCall", ctx, ctx2, headers, p[1], p[2],
                                         inputJSON, had, r)
            /\ lastDiscover' = NoDiscover
            /\ lastConnect' = NoConnect
            /\ closeLog' = NoCloseLog
            /\ UNCHANGED <<cmConn, connState, reflectionClient, services,
                           descriptorConfig, auxVars, rc>>

\* serviceDiscoverer.Close, what it does with both locks held
CloseLocked ==
    LET cs1 == IF ~reflectionClient.isNil
               THEN CloseTransport(connState, reflectionClient.conn) ELSE connState
        r == cmClose(cmConn, cs1)
    IN  /\ reflectionClient' = NilClient
        /\ cmConn' = r.conn
        /\ connState' = Collect(r.cs, r.conn, NilClient)
        /\ services' = EmptyCatalog
        /\ lastInvoke' = NoInvoke
        /\ lastDiscover' = NoDiscover
        /\ lastConnect' = NoConnect
        /\ closeLog' = [ran |-> TRUE,
                        byClient |-> reflectionClient.conn,
                        byManager |-> cmConn,
                        twice |-> cmConn # Nil /\ cs1[cmConn] = Shutdown
                                  /\ connState[cmConn] # Shutdown,
                        cmErr |-> r.err]
        /\ held' = Detached(held)
        /\ UNCHANGED <<descriptorConfig, rc, dp, pf, schemaVars>>

\* serviceDiscoverer.Close
Close == CloseLocked /\ UNCHANGED lockVars

(***************************************************************************)
(* serviceDiscoverer.Reconnect, one step per attempt and per wait.         *)
(***************************************************************************)

\* Mutant of MoreAttempts: one attempt too many.
MoreAttemptsOffByOne(i) == i <= maxReconnectAttempts

\* "for i := 0; i < d.maxReconnectAttempts; i++"
MoreAttempts(i) == i < maxReconnectAttempts

\* Mutant of SelectWait: the select has no ctx.Done() case.
SelectWaitTimerOnly(wake) == "proceed"

\* The select between attempts: ctx.Done() returns, time.After proceeds.
SelectWait(wake) == IF wake = "ctx" THEN "return" ELSE "proceed"

\* The loop's header for index i: leave the loop when the attempts are
\* used up, else (i > 0) enter the select; a context that is done already
\* wakes the select at once, the timer cannot have fired yet.
LoopHead(r, i) ==
    IF ~MoreAttempts(i)
    THEN [r EXCEPT !.pc = "done", !.i = i,
                   !.result = [kind |-> "exhausted", attempts |-> maxReconnectAttempts,
                               wraps |-> r.lastErr]]
    ELSE IF i > 0
    THEN [r EXCEPT !.pc = "wait", !.i = i, !.waits = @ + 1,
                   !.wake = IF r.ctxDone THEN "ctx" ELSE "none"]
    ELSE [r EXCEPT !.pc = "try", !.i = i]

\* "lastErr = err; continue"
Continue(r, err) ==
    LoopHead([r EXCEPT !.lastErr = err, !.attempts = @ + 1, !.failures = @ + 1], r.i + 1)

\* Reconnect is called; cancelled: the context is done at the call.
ReconnectStart ==
    \E cancelled \in BOOLEAN :
        /\ rc.pc \in {"idle", "done"}
        /\ rc' = LoopHead([RcIdle EXCEPT !.ctxDone = cancelled,
                                         !.cancelledAtCall = cancelled,
                                         !.cancelledIn = IF cancelled THEN "call" ELSE @], 0)
        /\ lastInvoke' = NoInvoke
        /\ lastDiscover' = NoDiscover
        /\ lastConnect' = NoConnect
        /\ closeLog' = NoCloseLog
        /\ UNCHANGED <<cmConn, connState, reflectionClient, services, descriptorConfig, auxVars>>

\* One attempt: the loop's body after the select.  grpc.DialContext returns
\* the context's error when the context is done.
ReconnectAttempt(Dials, Discovers) ==
    \E a \in Dials, d \in Discovers :
        LET r == cmReconnect(cmConn, connState, a.dialOk, a.st, a.changed, a.st2)
            conn == GetConnection(r.conn)
            n == rc.i + 1
            client == NewReflectionClient(conn)
            disc == DiscoverServices(client, services, r.cs, descriptorConfig,
                                     d.fd, d.content, d.listOk, d.found)
        IN  /\ rc.pc = "try"
            /\ rc.ctxDone => ~a.dialOk
            /\ cmConn' = r.conn
            /\ lastInvoke' = NoInvoke
            /\ lastConnect' = NoConnect
            /\ closeLog' = NoCloseLog
            /\ UNCHANGED <<descriptorConfig, auxVars, auxVars>>
            /\ IF r.err # "" \/ conn = Nil
               THEN /\ rc' = Continue(rc, ErrAt(n, IF r.err # "" THEN r.err
                              ELSE "connection manager returned nil connection after reconnect"))
                    /\ connState' = Collect(r.cs, r.conn, reflectionClient)
                    /\ lastDiscover' = NoDiscover
                    /\ UNCHANGED <<reflectionClient, services>>
               ELSE /\ reflectionClient' = client
                    /\ connState' = Collect(r.cs, r.conn, client)
                    /\ services' = disc.services
                    /\ lastDiscover' = Discovered(TRUE, d, disc)
                    /\ rc' = IF disc.err # ""
                             THEN Continue(rc, ErrAt(n, disc.err))
                             ELSE [rc EXCEPT !.pc = "done", !.attempts = @ + 1,
                                     !.result = [kind |-> "ok", attempts |-> n,
                                                 wraps |-> NoErr]]

\* The select returns: with ctx.Err() when ctx.Done() woke it, into the next
\* attempt when the timer did.
ReconnectWait ==
    /\ rc.pc = "wait"
    /\ rc.wake # "none"
    /\ rc' = IF SelectWait(rc.wake) = "return"
             THEN [rc EXCEPT !.pc = "done",
                             !.result = [kind |-> "ctx", attempts |-> rc.attempts,
                                         wraps |-> NoErr]]
             ELSE [rc EXCEPT !.pc = "try"]
    /\ lastInvoke' = NoInvoke
    /\ lastDiscover' = NoDiscover
    /\ lastConnect' = NoConnect
    /\ closeLog' = NoCloseLog
    /\ UNCHANGED <<cmConn, connState, reflectionClient, services, descriptorConfig, auxVars>>

\* The caller cancels the context, or its deadline passes, while Reconnect
\* runs; a select that is blocked is woken by it.
CancelCtx ==
    /\ rc.pc \in {"try", "wait"}
    /\ ~rc.ctxDone
    /\ rc' = [rc EXCEPT !.ctxDone = TRUE, !.cancelledIn = rc.pc,
                        !.wake = IF rc.pc = "wait" /\ rc.wake = "none" THEN "ctx" ELSE @]
    /\ lastConnect' = NoConnect
    /\ closeLog' = NoCloseLog
    /\ UNCHANGED <<cmConn, connState, reflectionClient, services, descriptorConfig, auxVars,
                   lastInvoke, lastDiscover>>

\* time.After(d.reconnectInterval) fires and wakes the blocked select.
TimerFire ==
    /\ rc.pc = "wait"
    /\ rc.wake = "none"
    /\ rc' = [rc EXCEPT !.wake = "timer"]
    /\ lastConnect' = NoConnect
    /\ closeLog' = NoCloseLog
    /\ UNCHANGED <<cmConn, connState, reflectionClient, services, descriptorConfig, auxVars,
                   lastInvoke, lastDiscover>>

(***************************************************************************)
(* DiscoverServices beside catalog readers.  d.mu orders the sections that *)
(* hold it: the body of discoverFromFileDescriptor after the registry is   *)
(* built, the replacement in discoverFromReflection, and each reader.  A   *)
(* pass is therefore one step per source it tries, and readers run between *)
(* the steps.                                                              *)
(***************************************************************************)

\* Mutant of GetServices: the map returned is d.services itself.
GetServicesLive(svcs) == [alias |-> TRUE, m |-> svcs]

\* serviceDiscoverer.GetServices: a new map with the catalog's entries.
GetServices(svcs) == [alias |-> FALSE, m |-> svcs]

\* serviceDiscoverer.GetServiceCount
GetServiceCount(svcs) == Cardinality(DOMAIN svcs)

\* serviceDiscoverer.GetMethodCount
RECURSIVE SumMethods(_, _)
SumMethods(svcs, names) ==
    IF names = {} THEN 0
    ELSE LET n == CHOOSE x \in names : TRUE
         IN  Len(svcs[n].Methods) + SumMethods(svcs, names \ {n})

GetMethodCount(svcs) == SumMethods(svcs, DOMAIN svcs)

Readers == {"GetServices", "GetService", "GetMethod", "GetServiceCount", "GetMethodCount"}

\* What a reader returns from the catalog it finds.
ReadResult(reader, svcs, sn, mn) ==
    [op |-> reader,
     svcs |-> IF reader = "GetServices" THEN GetServices(svcs).m
              ELSE IF reader = "GetService" /\ GetService(svcs, sn).exists
                   THEN [n \in {sn} |-> svcs[n]] ELSE EmptyCatalog,
     found |-> IF reader = "GetService" THEN GetService(svcs, sn).exists
               ELSE IF reader = "GetMethod" THEN GetMethod(svcs, sn, mn).exists
               ELSE TRUE,
     count |-> IF reader = "GetServiceCount" THEN GetServiceCount(svcs)
               ELSE IF reader = "GetMethodCount" THEN GetMethodCount(svcs)
               ELSE 0]

\* DiscoverServices is called: the nil test and the choice of the source.
DiscoverBegin(Answers) ==
    \E a \in Answers :
        /\ dp.pc \in {"idle", "done"}
        /\ dp' = [pc |-> IF reflectionClient.isNil THEN "done"
                        ELSE IF UseDescriptorStore(descriptorConfig) THEN "fd" ELSE "refl",
                  a |-> a, prev |-> services, seen |-> {}, final |-> services,
                  err |-> IF reflectionClient.isNil THEN ErrNotConnected ELSE ""]
        /\ lastInvoke' = NoInvoke
        /\ lastDiscover' = NoDiscover
        /\ lastConnect' = NoConnect
        /\ closeLog' = NoCloseLog
        /\ UNCHANGED <<cmConn, connState, reflectionClient, services, descriptorConfig,
                       rc, held, pf, schemaVars, lockVars>>

\* The pass runs discoverFromFileDescriptor.
DiscoverFd ==
    LET r == discoverFromFileDescriptor(services, dp.a.fd, dp.a.content)
    IN  /\ dp.pc = "fd"
        /\ services' = r.services
        /\ dp' = [dp EXCEPT !.pc = IF r.err = "" THEN "done" ELSE "refl",
                            !.final = r.services]
        /\ lastInvoke' = NoInvoke
        /\ lastDiscover' = NoDiscover
        /\ lastConnect' = NoConnect
        /\ closeLog' = NoCloseLog
        /\ UNCHANGED <<cmConn, connState, reflectionClient, descriptorConfig, rc, held, pf, schemaVars, lockVars>>

\* The pass runs discoverFromReflection and returns.
DiscoverRefl ==
    LET r == discoverFromReflection(services, reflectionClient, connState,
                                    dp.a.listOk, dp.a.found)
    IN  /\ dp.pc = "refl"
        /\ services' = r.services
        /\ dp' = [dp EXCEPT !.pc = "done", !.err = r.err, !.final = r.services]
        /\ lastInvoke' = NoInvoke
        /\ lastDiscover' = NoDiscover
        /\ lastConnect' = NoConnect
        /\ closeLog' = NoCloseLog
        /\ UNCHANGED <<cmConn, connState, reflectionClient, descriptorConfig, rc, held, pf, schemaVars, lockVars>>

\* A reader runs; what it finds while a pass is running is remembered.
Read(Targets) ==
    \E reader \in Readers, t \in Targets :
        /\ pf' = ReadResult(reader, services, t[1], t[2])
        /\ dp' = IF dp.pc \in {"fd", "refl"}
                 THEN [dp EXCEPT !.seen = @ \cup {services}] ELSE dp
        /\ lastInvoke' = NoInvoke
        /\ lastDiscover' = NoDiscover
        /\ lastConnect' = NoConnect
        /\ closeLog' = NoCloseLog
        /\ UNCHANGED <<cmConn, connState, reflectionClient, services, descriptorConfig,
                       rc, held, schemaVars, lockVars>>

(***************************************************************************)
(* A caller of GetServices and what it does to the map it got.             *)
(***************************************************************************)

\* m[k] = v
MapPut(m, k, v) == [n \in (DOMAIN m) \cup {k} |-> IF n = k THEN v ELSE m[n]]

\* delete(m, k)
MapDelete(m, k) == [n \in (DOMAIN m) \ {k} |-> m[n]]

\* A caller calls GetServices and keeps the map.
CallGetServices ==
    LET r == GetServices(services)
    IN  /\ held' = [has |-> TRUE, alias |-> r.alias, m |-> r.m, orig |-> r.m,
                    op |-> "GetServices"]
        /\ lastInvoke' = NoInvoke
        /\ lastDiscover' = NoDiscover
        /\ lastConnect' = NoConnect
        /\ closeLog' = NoCloseLog
        /\ UNCHANGED <<cmConn, connState, reflectionClient, services, descriptorConfig,
                       rc, dp, pf, schemaVars, lockVars>>

\* The caller adds an entry to the map it holds, deletes one or replaces one.
\* A map that is the catalog's own is the catalog.
CallerMutates(Keys) ==
    \E op \in {"add", "delete", "replace"}, k \in Keys :
        LET v == ServiceInfo(k, <<>>, "caller")
            m2 == IF op = "delete" THEN MapDelete(held.m, k) ELSE MapPut(held.m, k, v)
        IN  /\ held.has
            /\ (op = "add") = (k \notin DOMAIN held.m)
            /\ held' = [held EXCEPT !.m = m2, !.op = op]
            /\ services' = IF held.alias THEN m2 ELSE services
            /\ lastInvoke' = NoInvoke
            /\ lastDiscover' = NoDiscover
            /\ lastConnect' = NoConnect
            /\ closeLog' = NoCloseLog
            /\ UNCHANGED <<cmConn, connState, reflectionClient, descriptorConfig,
                           rc, dp, pf, schemaVars, lockVars>>

(***************************************************************************)
(* The connection manager called directly, and the transport changing its  *)
(* state on its own.                                                       *)
(***************************************************************************)

\* The state of the transport a handle names; "none" for no handle.
StateOf(conn, cs) == IF conn = Nil THEN "none" ELSE cs[conn]

\* What a call on the manager did: the handle and its transport's state
\* before, the environment's answer, the transport dialed and its state at
\* the return, the error and the boolean returned.
CmDid(op, a, dialed, dialedState, err, result, closed) ==
    [op |-> op, before |-> cmConn, stBefore |-> StateOf(cmConn, connState), a |-> a,
     dialed |-> dialed, dialedState |-> dialedState, err |-> err, result |-> result,
     closed |-> closed]

NoAnswer == [dialOk |-> FALSE, st |-> Idle, changed |-> FALSE, st2 |-> Ready]

\* connectionManager.Connect, or Reconnect, which calls it.
CmConnect ==
    \E op \in {"Connect", "Reconnect"}, a \in DialAnswers :
        LET r == IF op = "Connect"
                 THEN cmConnect(cmConn, connState, a.dialOk, a.st, a.changed, a.st2)
                 ELSE cmReconnect(cmConn, connState, a.dialOk, a.st, a.changed, a.st2)
        IN  /\ cmConn' = r.conn
            /\ connState' = Collect(r.cs, r.conn, reflectionClient)
            /\ pf' = CmDid(op, a, r.dialed, StateOf(r.dialed, r.cs), r.err, r.err = "",
                           {id \in ConnIds : r.cs[id] = Shutdown /\ connState[id] # Shutdown})
            /\ lastInvoke' = NoInvoke
            /\ lastDiscover' = NoDiscover
            /\ lastConnect' = NoConnect
            /\ closeLog' = NoCloseLog
            /\ UNCHANGED <<reflectionClient, services, descriptorConfig, rc, dp, held, schemaVars, lockVars>>

\* connectionManager.Close
CmClose ==
    LET r == cmClose(cmConn, connState)
    IN  /\ cmConn' = r.conn
        /\ connState' = Collect(r.cs, r.conn, reflectionClient)
        /\ pf' = CmDid("Close", NoAnswer, Nil, "none", r.err, r.err = "",
                       {id \in ConnIds : r.cs[id] = Shutdown /\ connState[id] # Shutdown})
        /\ lastInvoke' = NoInvoke
        /\ lastDiscover' = NoDiscover
        /\ lastConnect' = NoConnect
        /\ closeLog' = NoCloseLog
        /\ UNCHANGED <<reflectionClient, services, descriptorConfig, rc, dp, held, schemaVars, lockVars>>

\* connectionManager.IsConnected
CmIsConnected ==
    /\ pf' = CmDid("IsConnected", NoAnswer, Nil, "none", "", cmIsConnected(cmConn, connState), {})
    /\ lastInvoke' = NoInvoke
    /\ lastDiscover' = NoDiscover
    /\ lastConnect' = NoConnect
    /\ closeLog' = NoCloseLog
    /\ UNCHANGED <<cmConn, connState, reflectionClient, services, descriptorConfig,
                   rc, dp, held, schemaVars, lockVars>>

\* Contexts a caller hands to HealthCheck.
HealthCtxs == {ctx \in Contexts : ctx.md = <<>>} \cup {[deadline |-> TightDeadline, md |-> <<>>]}

\* connectionManager.HealthCheck(ctx)
CmHealthCheck ==
    \E ctx \in HealthCtxs, change \in StateChanges, st2 \in LiveStates :
        LET healthCtx == WithTimeout(ctx, HealthTimeoutSeconds)
            changed == WaitForStateChange(healthCtx, change)
            r == healthCheckLocked(cmConn, connState, changed, st2)
            a == [dialOk |-> TRUE, st |-> Idle, changed |-> changed, st2 |-> st2]
        IN  /\ st2 # StateOf(cmConn, connState)
            /\ connState' = r.cs
            /\ pf' = CmDid("HealthCheck", a, Nil, "none", r.err, r.err = "", {})
                        @@ [ctx |-> ctx, change |-> change, waited |-> r.waited]
            /\ lastInvoke' = NoInvoke
            /\ lastDiscover' = NoDiscover
            /\ lastConnect' = NoConnect
            /\ closeLog' = NoCloseLog
            /\ UNCHANGED <<cmConn, reflectionClient, services, descriptorConfig,
                           rc, dp, held, schemaVars, lockVars>>

\* The transport the manager holds changes its state on its own (the
\* server goes away, the channel goes idle, a retry begins or succeeds).
TransportChange ==
    \E st \in LiveStates :
        /\ cmConn # Nil
        /\ connState[cmConn] # Shutdown
        /\ connState[cmConn] # st
        /\ connState' = [connState EXCEPT ![cmConn] = st]
        /\ pf' = CmDid("TransportChange", NoAnswer, Nil, "none", "", TRUE, {})
        /\ lastInvoke' = NoInvoke
        /\ lastDiscover' = NoDiscover
        /\ lastConnect' = NoConnect
        /\ closeLog' = NoCloseLog
        /\ UNCHANGED <<cmConn, reflectionClient, services, descriptorConfig, rc, dp, held, schemaVars, lockVars>>

(***************************************************************************)
(* Tool names: the catalogs a backend can give rise to, and the handler's  *)
(* lookup of a tool name.                                                  *)
(***************************************************************************)

\* Service and method names as a backend may declare them: names are case
\* sensitive, a package is optional, and an identifier may hold "_".
ToolServiceNames == { <<"a", ".", "S">>, <<"a", "_", "s">>, <<"a">> }

ToolMethodLists ==
    { << <<"D">> >>, << <<"D">>, <<"d">> >>, << <<"S", "_", "D">> >>, << <<"W">>, <<"d">> >> }

\* The catalogs of a discovery pass over such a backend.
ToolCatalogs ==
    UNION { [names -> {[i \in DOMAIN l |-> MethodInfo(l[i], "", FALSE, FALSE)] :
                          l \in ToolMethodLists}] :
            names \in (SUBSET ToolServiceNames) \ {{}} }

\* The (service, method) pairs of a catalog.
PairsOf(svcs) ==
    UNION { {<<sn, svcs[sn].Methods[i].Name>> : i \in DOMAIN svcs[sn].Methods} :
            sn \in DOMAIN svcs }

\* A discovery pass has found one of the catalogs.
DiscoverTools ==
    \E c \in ToolCatalogs :
        /\ ~reflectionClient.isNil
        /\ services' = [n \in DOMAIN c |-> ServiceInfo(n, c[n], "t.proto")]
        /\ pf' = NoPf
        /\ lastInvoke' = NoInvoke
        /\ lastDiscover' = NoDiscover
        /\ lastConnect' = NoConnect
        /\ closeLog' = NoCloseLog
        /\ UNCHANGED <<cmConn, connState, reflectionClient, descriptorConfig, rc, dp, held, schemaVars, lockVars>>

\* The tool builder names the tool of a pair of the catalog, a client sends
\* that name back, and Handler.parseToolName looks it up.
ParseGeneratedName ==
    \E t \in PairsOf(services) :
        LET toolName == generateToolName(t[1], t[2])
        IN  \E p \in parseToolName(services, toolName) :
                /\ pf' = [op |-> "parseToolName", service |-> t[1], method |-> t[2],
                          toolName |-> toolName, parsed |-> p]
                /\ lastInvoke' = NoInvoke
                /\ lastDiscover' = NoDiscover
                /\ lastConnect' = NoConnect
                /\ closeLog' = NoCloseLog
                /\ UNCHANGED <<cmConn, connState, reflectionClient, services,
                               descriptorConfig, rc, dp, held, schemaVars, lockVars>>

(***************************************************************************)
(* Specifications of the invocation paths: a discoverer created without a  *)
(* descriptor store or with one that is enabled, then any sequence of      *)
(* Connect, DiscoverServices, invocations and Close.  Spec varies the      *)
(* target and the payload of a call to the discoverer; CtxSpec varies the  *)
(* context and the headers, and has the handler's calls as well.           *)
(***************************************************************************)

\* config.DescriptorSetConfig
DescriptorSetConfig(enabled, path, prefer) ==
    [Enabled |-> enabled, Path |-> path, PreferOverReflection |-> prefer]

(***************************************************************************)
(* Schema compilation: descriptors.SchemaExtractor and tools.Builder.      *)
(*                                                                         *)
(* A message descriptor is known by its full name; descs maps a full name  *)
(* to its fields and its source comment.  A field has a name, a kind, the  *)
(* full name of its message type (kind "message"), a label and a source    *)
(* comment.  The descriptors have no oneofs, enums or map fields.  A JSON  *)
(* object is a function from its keys to its values.                       *)
(***************************************************************************)
NoDescs == <<>>
EmptyCache == <<>>

\* the deepest nesting the model follows; with the visited check no path of
\* messages is longer than the number of message types, so a deeper path is
\* a compilation that expands a type below itself and never ends
MaxDepth == 5

Overflow == "overflow" :> TRUE

TypeA == "A"
TypeB == "B"
UserTypes == {TypeA, TypeB}

StringValue == "google.protobuf.StringValue"
BoolValue == "google.protobuf.BoolValue"
Int64Value == "google.protobuf.Int64Value"
DoubleValue == "google.protobuf.DoubleValue"

Field(name, kind, message, label, comment) ==
    [name |-> name, kind |-> kind, message |-> message, label |-> label,
     comment |-> comment]

\* google/protobuf/wrappers.proto: every wrapper has one field named value
Message(fields, comment) == [fields |-> fields, comment |-> comment]

\* google/protobuf/wrappers.proto: every wrapper has one field named value
WrapperDescs ==
    (StringValue :> Message(<< Field("value", "string", "", "implicit", "") >>, ""))
    @@ (BoolValue :> Message(<< Field("value", "bool", "", "implicit", "") >>, ""))
    @@ (Int64Value :> Message(<< Field("value", "int64", "", "implicit", "") >>, ""))
    @@ (DoubleValue :> Message(<< Field("value", "double", "", "implicit", "") >>, ""))

IsList(field) == field.label = "repeated"
HasOptionalKeyword(field) == field.label = "optional"
CardinalityRequired(field) == field.label = "required"
HasPresence(field) ==
    \/ field.label \in {"optional", "required"}
    \/ field.kind = "message" /\ field.label \notin {"repeated", "map"}

extractComments(d) == d.comment

Ref(fullName) == "$ref" :> ("#/definitions/" \o fullName)

\* a compiler that never finds a type in its visited map
NeverVisited(visited, fullName) == FALSE

IsVisited(visited, fullName) == fullName \in visited

Compiled(schema) == [err |-> "", schema |-> schema]
CompileError(msg) == [err |-> msg, schema |-> <<>>]

\* SchemaExtractor.extractFieldTypeSchemaInternal, the well-known types it
\* maps by hand
WellKnownSchema ==
    ("google.protobuf.Any" :>
        (("type" :> "object") @@
         ("description" :> "Any contains an arbitrary serialized protocol buffer message")))
    @@ ("google.protobuf.Timestamp" :>
        (("type" :> "string") @@ ("format" :> "date-time") @@
         ("description" :> "RFC 3339 formatted timestamp")))
    @@ ("google.protobuf.Duration" :>
        (("type" :> "string") @@ ("format" :> "duration") @@
         ("description" :> "Duration in seconds with up to 9 fractional digits")))
    @@ ("google.protobuf.Struct" :>
        (("type" :> "object") @@ ("description" :> "Arbitrary JSON-like structure")))
    @@ ("google.protobuf.Value" :> ("description" :> "Any JSON value"))
    @@ ("google.protobuf.ListValue" :>
        (("type" :> "array") @@ ("description" :> "Array of JSON values")))
    @@ (StringValue :> ("type" :> "string"))
    @@ ("google.protobuf.BytesValue" :> ("type" :> "string"))
    @@ (BoolValue :> ("type" :> "boolean"))
    @@ ("google.protobuf.Int32Value" :> ("type" :> "integer"))
    @@ ("google.protobuf.UInt32Value" :> ("type" :> "integer"))
    @@ (Int64Value :> ("type" :> "integer"))
    @@ ("google.protobuf.UInt64Value" :> ("type" :> "integer"))
    @@ ("google.protobuf.FloatValue" :> ("type" :> "number"))
    @@ (DoubleValue :> ("type" :> "number"))

\* the scalar kinds of SchemaExtractor.extractFieldTypeSchemaInternal
ExtractorScalar ==
    ("bool" :> ("type" :> "boolean"))
    @@ ("int64" :> (("type" :> "integer") @@ ("format" :> "int64")))
    @@ ("double" :> (("type" :> "number") @@ ("format" :> "double")))
    @@ ("string" :> ("type" :> "string"))

RECURSIVE extractMessageSchemaInternal(_, _, _)
RECURSIVE extractFields(_, _, _, _, _)

extractFieldTypeSchemaInternal(field, visited, depth) ==
    IF field.kind \in DOMAIN ExtractorScalar
    THEN Compiled(ExtractorScalar[field.kind])
    ELSE IF field.kind = "message"
    THEN IF field.message \in DOMAIN WellKnownSchema
         THEN Compiled(WellKnownSchema[field.message])
         ELSE extractMessageSchemaInternal(field.message, visited, depth)
    ELSE CompileError("unsupported field kind")

\* the schema of a repeated field around the schema t of its elements
ArrayOf(field, t) ==
    IF t.err # "" THEN t
    ELSE Compiled(MapPut(MapPut(IF extractComments(field) # ""
                                THEN "description" :> extractComments(field)
                                ELSE <<>>,
                                "type", "array"),
                         "items", t.schema))

\* a map field, label "map": kind and message are those of its values
IsMap(field) == field.label = "map"
MapValue(field) == Field("value", field.kind, field.message, "implicit", "")

\* the schema of a map field around the schema t of its values
MapOf(field, t) ==
    IF t.err # "" THEN t
    ELSE Compiled(MapPut(MapPut(IF extractComments(field) # ""
                                THEN "description" :> extractComments(field)
                                ELSE <<>>,
                                "type", "object"),
                         "additionalProperties", t.schema))

\* the schema with the description is returned for repeated and map fields
\* only: for every other field the result is the schema of the type
extractFieldSchemaInternal(field, visited, depth) ==
    IF IsList(field)
    THEN ArrayOf(field, extractFieldTypeSchemaInternal(field, visited, depth))
    ELSE IF IsMap(field)
    THEN MapOf(field, extractFieldTypeSchemaInternal(MapValue(field), visited, depth))
    ELSE extractFieldTypeSchemaInternal(field, visited, depth)

\* one turn of the loop over msgDesc.Fields(): a field that fails is skipped
WithProperty(acc, field, r) ==
    IF r.err # "" THEN acc
    ELSE [properties |-> MapPut(acc.properties, field.name, r.schema),
          required |-> IF HasOptionalKeyword(field) \/ HasPresence(field)
                       THEN acc.required
                       ELSE Append(acc.required, field.name)]

extractFields(fields, i, visited, depth, acc) ==
    IF i > Len(fields) THEN acc
    ELSE extractFields(fields, i + 1, visited, depth,
             WithProperty(acc, fields[i],
                          extractFieldSchemaInternal(fields[i], visited, depth)))

\* the schema of a message with the properties and required names r
ObjectSchema(desc, r) ==
    LET schema == ("type" :> "object") @@ ("properties" :> r.properties)
        described == IF desc # "" THEN MapPut(schema, "description", desc)
                     ELSE schema
    IN  IF Len(r.required) > 0
        THEN MapPut(described, "required", r.required)
        ELSE described

extractMessageSchemaInternal(fullName, visited, depth) ==
    IF IsVisited(visited, fullName) THEN Compiled(Ref(fullName))
    ELSE IF depth > MaxDepth THEN Compiled(Overflow)
    ELSE Compiled(ObjectSchema(extractComments(descs[fullName]),
                      extractFields(descs[fullName].fields, 1,
                                    visited \cup {fullName}, depth + 1,
                                    [properties |-> <<>>, required |-> <<>>])))

ExtractMessageSchema(fullName) == extractMessageSchemaInternal(fullName, {}, 0)

\* SchemaExtractor.extractFieldSchema
extractFieldSchema(field) == extractFieldSchemaInternal(field, {}, 0)

(***************************************************************************)
(* tools.Builder.  A message schema the Builder generated is one Go map,   *)
(* stored in schemaCache under the full name of its type, and every place  *)
(* that holds it holds a reference to that same map: Shared(fullName).     *)
(* SchemaValue follows the references and gives the JSON document.         *)
(***************************************************************************)
Shared(fullName) == "shared" :> fullName
IsShared(schema) == "shared" \in DOMAIN schema

RECURSIVE SchemaValue(_, _)
SchemaValue(cache, schema) ==
    IF IsShared(schema) THEN SchemaValue(cache, cache[schema.shared])
    ELSE [k \in DOMAIN schema |->
            IF k = "properties"
            THEN [f \in DOMAIN schema[k] |-> SchemaValue(cache, schema[k][f])]
            ELSE IF k = "items" THEN SchemaValue(cache, schema[k])
            ELSE schema[k]]

\* the scalar kinds of Builder.generateFieldSchema
BuilderScalar ==
    ("bool" :> ("type" :> "boolean"))
    @@ ("int64" :> ("type" :> "integer"))
    @@ ("double" :> ("type" :> "number"))
    @@ ("string" :> ("type" :> "string"))

\* Builder.GetFieldDescription: the comment, or a generic description
GetFieldDescription(field) ==
    IF field.comment # "" THEN field.comment ELSE "Field " \o field.name

Generated(schema, cache, visited) ==
    [err |-> "", schema |-> schema, cache |-> cache, visited |-> visited]
GenerateError(msg, cache, visited) ==
    [err |-> msg, schema |-> <<>>, cache |-> cache, visited |-> visited]

CacheHit(cache, fullName) == fullName \in DOMAIN cache

RECURSIVE generateMessageSchema(_, _, _, _)
RECURSIVE generateFields(_, _, _, _)

\* Builder.generateFieldSchema after the switch on the kind: base is what the
\* switch gave
FieldSchemaOf(field, base) ==
    IF base.err # "" THEN base
    ELSE IF IsList(field)
    THEN Generated(("type" :> "array") @@ ("items" :> base.schema),
                   base.cache, base.visited)
    ELSE IF IsShared(base.schema)
    \* schema["description"] = description writes into the cached map
    THEN Generated(base.schema,
                   [base.cache EXCEPT ![base.schema.shared] =
                        MapPut(@, "description", GetFieldDescription(field))],
                   base.visited)
    ELSE Generated(MapPut(base.schema, "description", GetFieldDescription(field)),
                   base.cache, base.visited)

generateFieldSchema(cache, visited, field, depth) ==
    FieldSchemaOf(field,
        IF field.kind \in DOMAIN BuilderScalar
        THEN Generated(BuilderScalar[field.kind], cache, visited)
        ELSE IF field.kind = "message"
        THEN generateMessageSchema(cache, visited, field.message, depth)
        ELSE GenerateError("unsupported field kind", cache, visited))

\* one turn of the loop over desc.Fields(): r is the schema of the field
WithField(acc, field, r) ==
    IF r.err # ""
    THEN [acc EXCEPT !.err = r.err, !.cache = r.cache, !.visited = r.visited]
    ELSE [err |-> "", cache |-> r.cache, visited |-> r.visited,
          properties |-> MapPut(acc.properties, field.name, r.schema),
          required |-> IF ~HasOptionalKeyword(field) /\ CardinalityRequired(field)
                       THEN Append(acc.required, field.name)
                       ELSE acc.required]

\* the loop over desc.Fields(): the first field that fails fails the message
generateFields(fields, i, depth, acc) ==
    IF i > Len(fields) \/ acc.err # "" THEN acc
    ELSE generateFields(fields, i + 1, depth,
             WithField(acc, fields[i],
                       generateFieldSchema(acc.cache, acc.visited, fields[i], depth)))

\* the end of Builder.generateMessageSchema: the map is stored in the cache
CacheSchema(fullName, r) ==
    IF r.err # "" THEN GenerateError(r.err, r.cache, r.visited)
    ELSE Generated(Shared(fullName),
                   MapPut(r.cache, fullName,
                          ObjectSchema("", [properties |-> r.properties,
                                            required |-> r.required])),
                   r.visited)

generateMessageSchema(cache, visited, fullName, depth) ==
    IF IsVisited(visited, fullName) THEN Generated(Ref(fullName), cache, visited)
    ELSE IF CacheHit(cache, fullName)
    THEN Generated(Shared(fullName), cache, visited \cup {fullName})
    ELSE IF depth > MaxDepth THEN Generated(Overflow, cache, visited)
    ELSE CacheSchema(fullName,
             generateFields(descs[fullName].fields, 1, depth + 1,
                            [err |-> "", cache |-> cache,
                             visited |-> visited \cup {fullName},
                             properties |-> <<>>, required |-> <<>>]))

\* Builder.generateDescription
generateDescription(serviceName, method) ==
    IF method.Description # "" THEN method.Description
    ELSE <<"Calls the method of the service", method.Name, serviceName>>

\* Builder.validateTool
validateTool(tool) ==
    IF tool.Name = <<>> THEN "tool name cannot be empty"
    ELSE IF tool.Description = "" THEN "tool description cannot be empty"
    ELSE IF tool.InputSchema = <<>> THEN "tool input schema cannot be nil"
    ELSE IF \A i \in DOMAIN tool.Name : tool.Name[i] # "_"
    THEN "tool name must contain underscore separator"
    ELSE ""

NoTool == [Name |-> <<>>, Description |-> "", InputSchema |-> <<>>, OutputSchema |-> <<>>]

\* Builder.BuildTool once both schemas are generated.  inputValue is the
\* document the input schema was when generateMessageSchema returned it
BuiltTool(serviceName, method, in, out) ==
    LET tool == [Name |-> generateToolName(serviceName, method.Name),
                 Description |-> generateDescription(serviceName, method),
                 InputSchema |-> in.schema, OutputSchema |-> out.schema]
    IN  IF in.err # ""
        THEN [err |-> "failed to generate input schema", cache |-> in.cache,
              tool |-> NoTool, inputValue |-> <<>>]
        ELSE IF out.err # ""
        THEN [err |-> "failed to generate output schema", cache |-> out.cache,
              tool |-> NoTool, inputValue |-> <<>>]
        ELSE IF validateTool(tool) # ""
        THEN [err |-> "tool validation failed", cache |-> out.cache,
              tool |-> NoTool, inputValue |-> <<>>]
        ELSE [err |-> "", cache |-> out.cache, tool |-> tool,
              inputValue |-> SchemaValue(in.cache, in.schema)]

\* the output schema is generated after the input schema, in the cache the
\* input schema left, each with a visited map of its own
OutputAfter(method, in) ==
    IF in.err # "" THEN in
    ELSE generateMessageSchema(in.cache, {}, method.OutputDescriptor, 0)

BuildToolFrom(serviceName, method, in) ==
    BuiltTool(serviceName, method, in, OutputAfter(method, in))

\* Builder.BuildTool
BuildTool(cache, serviceName, method) ==
    BuildToolFrom(serviceName, method,
                  generateMessageSchema(cache, {}, method.InputDescriptor, 0))

(***************************************************************************)
(* The descriptors the compilers are applied to: two message types whose   *)
(* fields are drawn from FieldShapes, so that the types may refer to each  *)
(* other, to themselves and to the wrappers.  A has up to two fields and   *)
(* B up to one.                                                            *)
(***************************************************************************)
FieldCounts == (TypeA :> 0..2) @@ (TypeB :> 0..1)

FieldShapes ==
    { Field("", "string", "", "implicit", ""),
      Field("", "message", TypeA, "implicit", ""),
      Field("", "message", TypeB, "implicit", ""),
      Field("", "message", TypeA, "repeated", ""),
      Field("", "message", StringValue, "implicit", ""),
      Field("", "message", BoolValue, "implicit", ""),
      Field("", "message", Int64Value, "implicit", ""),
      Field("", "message", DoubleValue, "implicit", "") }

FieldNames == <<"f1", "f2", "f3">>

FieldLists(counts) ==
    UNION { { [i \in 1..n |-> [shapes[i] EXCEPT !.name = FieldNames[i]]] :
                shapes \in [1..n -> FieldShapes] } : n \in counts }

DescsUniverse ==
    { ((TypeA :> Message(a, "")) @@ (TypeB :> Message(b, ""))) @@ WrapperDescs :
        a \in FieldLists(FieldCounts[TypeA]), b \in FieldLists(FieldCounts[TypeB]) }

\* the message types a type refers to, and whether it reaches itself
MessageTypesOf(ds, t) ==
    { ds[t].fields[i].message :
        i \in { j \in DOMAIN ds[t].fields : ds[t].fields[j].kind = "message" } }

RECURSIVE ReachableFrom(_, _, _)
ReachableFrom(ds, frontier, seen) ==
    LET next == UNION { MessageTypesOf(ds, t) : t \in frontier } \ seen
    IN  IF next = {} THEN seen ELSE ReachableFrom(ds, next, seen \cup next)

ReachableTypes(ds, t) == ReachableFrom(ds, {t}, {})
Acyclic(ds, t) == \A u \in ReachableTypes(ds, t) \cup {t} : u \notin ReachableTypes(ds, u)

ServiceA == <<"a">>
Methods ==
    { [Name |-> <<"M">>, Description |-> "", InputDescriptor |-> in,
       OutputDescriptor |-> out] : in \in UserTypes, out \in UserTypes }

Compilers == {"extractor", "builder"}
NoSchema == "none" :> TRUE
\* nothing compiled yet by the compiler that is going to be applied
NoCompile(compiler) ==
    [op |-> "none", compiler |-> compiler, type |-> "", err |-> "",
     schema |-> NoSchema, earlier |-> NoSchema,
     first |-> [t \in UserTypes |-> NoSchema]]

\* the last compilation, the schema the first compilation of the same type
\* gave (earlier), and the first schema of every type compiled so far
Recorded(op, type, err, schema) ==
    [op |-> op, compiler |-> pf.compiler, type |-> type, err |-> err,
     schema |-> schema, earlier |-> pf.first[type],
     first |-> IF pf.first[type] = NoSchema /\ err = ""
               THEN [pf.first EXCEPT ![type] = schema]
               ELSE pf.first]

\* what an ExtractMessageSchema call that returned r leaves behind
Extracted(t, r) ==
    pf' = Recorded("ExtractMessageSchema", t, r.err, r.schema)

\* a caller applies SchemaExtractor.ExtractMessageSchema to a descriptor
CallExtractMessageSchema ==
    \E t \in UserTypes :
        /\ pf.compiler = "extractor"
        /\ Extracted(t, ExtractMessageSchema(t))
        /\ closeLog' = NoCloseLog
        /\ UNCHANGED <<cmConn, connState, reflectionClient, services,
                       descriptorConfig, rc, histVars, dp, held, schemaVars, lockVars>>

\* the fields extractFieldSchema is applied to: singular, repeated and map
\* fields of strings and of messages A, with and without a comment
CommentedFields ==
    { Field("f", kind, IF kind = "message" THEN TypeA ELSE "", label, comment) :
        kind \in {"string", "message"}, label \in {"implicit", "repeated", "map"},
        comment \in {"", "about f"} }

\* what an extractFieldSchema call that returned r leaves behind
FieldExtracted(field, r) ==
    pf' = [op |-> "extractFieldSchema", compiler |-> pf.compiler, type |-> "",
           err |-> r.err, schema |-> r.schema, earlier |-> NoSchema,
           first |-> pf.first, field |-> field]

\* a caller applies SchemaExtractor.extractFieldSchema to a field
CallExtractFieldSchema ==
    \E field \in CommentedFields :
        /\ pf.compiler = "extractor"
        /\ FieldExtracted(field, extractFieldSchema(field))
        /\ closeLog' = NoCloseLog
        /\ UNCHANGED <<cmConn, connState, reflectionClient, services,
                       descriptorConfig, rc, histVars, dp, held, schemaVars, lockVars>>

\* what a BuildTool call that returned r leaves behind
Built(method, r) ==
    /\ schemaCache' = r.cache
    /\ pf' = Recorded("BuildTool", method.InputDescriptor, r.err, r.inputValue)
             @@ [method |-> method,
                 tool |-> [r.tool EXCEPT
                    !.InputSchema = SchemaValue(r.cache, @),
                    !.OutputSchema = SchemaValue(r.cache, @)]]

\* a caller applies Builder.BuildTool to a method of the catalog
CallBuildTool ==
    \E method \in Methods :
        /\ pf.compiler = "builder"
        /\ Built(method, BuildTool(schemaCache, ServiceA, method))
        /\ closeLog' = NoCloseLog
        /\ UNCHANGED <<cmConn, connState, reflectionClient, services,
                       descriptorConfig, rc, histVars, dp, held, descs, lockVars>>

(***************************************************************************)
(* Builder.BuildTools: the tools of a whole catalog.  services is the map  *)
(* from service names to ServiceInfo, order the order in which the range   *)
(* over the map visits its keys.                                           *)
(***************************************************************************)
\* the streaming test of Builder.BuildTools
SkipsStreaming(method) == method.IsClientStreaming \/ method.IsServerStreaming

\* one BuildTool call of the loop: a failure is logged and the method is
\* skipped; the schema cache keeps what the call stored
WithTool(acc, r) ==
    IF r.err # "" THEN [cache |-> r.cache, tools |-> acc.tools]
    ELSE [cache |-> r.cache, tools |-> Append(acc.tools, r.tool)]

\* the loop over service.Methods from the i-th method on
RECURSIVE buildMethods(_, _, _, _)
buildMethods(acc, serviceName, methods, i) ==
    IF i > Len(methods) THEN acc
    ELSE buildMethods(IF SkipsStreaming(methods[i]) THEN acc
                      ELSE WithTool(acc, BuildTool(acc.cache, serviceName, methods[i])),
                      serviceName, methods, i + 1)

\* the loop over the services map from the k-th key of the order on
RECURSIVE buildServices(_, _, _, _)
buildServices(acc, svcMap, order, k) ==
    IF k > Len(order) THEN acc
    ELSE buildServices(buildMethods(acc, order[k], svcMap[order[k]].Methods, 1),
                       svcMap, order, k + 1)

\* Builder.BuildTools: the error is always nil
BuildToolsResult(acc) == [err |-> "", tools |-> acc.tools, cache |-> acc.cache]
BuildTools(cache, svcMap, order) ==
    BuildToolsResult(buildServices([cache |-> cache, tools |-> <<>>], svcMap, order, 1))

\* the catalogs BuildTools is applied to: service a with up to two methods
\* and service b with up to one, every method unary or streaming in one
\* direction, with input and output types A or B
ServiceB == <<"b">>
ToolMethodNames == << <<"M">>, <<"N">> >>
StreamingFlags == { <<FALSE, FALSE>>, <<TRUE, FALSE>>, <<FALSE, TRUE>> }
CatalogMethod(name, in, out, flags) ==
    [Name |-> name, Description |-> "", InputDescriptor |-> in,
     OutputDescriptor |-> out, IsClientStreaming |-> flags[1],
     IsServerStreaming |-> flags[2]]
MethodListsUpTo(n) ==
    UNION { { [i \in 1..len |-> CatalogMethod(ToolMethodNames[i], ins[i], outs[i], flags[i])] :
                ins \in [1..len -> UserTypes], outs \in [1..len -> UserTypes],
                flags \in [1..len -> StreamingFlags] } : len \in 0..n }
Catalogs ==
    { (ServiceA :> ServiceInfo(ServiceA, ma, "nil"))
      @@ (ServiceB :> ServiceInfo(ServiceB, mb, "nil")) :
        ma \in MethodListsUpTo(2), mb \in MethodListsUpTo(1) }

\* the descriptors of the catalog: A is empty or has a field of type B; B is
\* empty, has a field of type A, or has a proto2 group, for which
\* generateFieldSchema has no case
GroupField == Field("g", "group", "", "implicit", "")
CatalogDescs ==
    { ((TypeA :> Message(a, "")) @@ (TypeB :> Message(b, ""))) @@ WrapperDescs :
        a \in { <<>>, << Field("f1", "message", TypeB, "implicit", "") >> },
        b \in { <<>>, << Field("f1", "message", TypeA, "implicit", "") >>,
                << Field("f1", "message", TypeA, "implicit", ""), GroupField >> } }

\* what a BuildTools call that returned r leaves behind
ToolsBuilt(order, r) ==
    /\ schemaCache' = r.cache
    /\ pf' = [op |-> "BuildTools", catalog |-> pf.catalog, order |-> order,
              err |-> r.err,
              tools |-> [k \in DOMAIN r.tools |->
                            [r.tools[k] EXCEPT
                                !.InputSchema = SchemaValue(r.cache, @),
                                !.OutputSchema = SchemaValue(r.cache, @)]]]

\* a caller applies Builder.BuildTools to the catalog
CallBuildTools ==
    \E order \in Orders(DOMAIN pf.catalog) :
        /\ ToolsBuilt(order, BuildTools(schemaCache, pf.catalog, order))
        /\ closeLog' = NoCloseLog
        /\ UNCHANGED <<cmConn, connState, reflectionClient, services,
                       descriptorConfig, rc, histVars, dp, held, descs, lockVars>>


(***************************************************************************)
(* Reflection client: the services of a file descriptor.                   *)
(*                                                                         *)
(* A FileDescriptorProto has a name, a package ("" is the empty tuple),    *)
(* the services it declares with their methods, and the simple names of    *)
(* the messages it declares.  Names are tuples of characters.              *)
(***************************************************************************)
FileDescriptorProto(name, package, service, messageType) ==
    [Name |-> name, Package |-> package, Service |-> service,
     MessageType |-> messageType]
ServiceDescriptorProto(name, method) == [Name |-> name, Method |-> method]
MethodDescriptorProto(name, inputType, outputType, cs, ss) ==
    [Name |-> name, InputType |-> inputType, OutputType |-> outputType,
     ClientStreaming |-> cs, ServerStreaming |-> ss]

\* strings.HasPrefix, strings.TrimPrefix
HasPrefix(s, prefix) ==
    Len(s) >= Len(prefix) /\ SubSeq(s, 1, Len(prefix)) = prefix
TrimPrefix(s, prefix) ==
    IF HasPrefix(s, prefix) THEN SubSeq(s, Len(prefix) + 1, Len(s)) ELSE s

\* a mutant of fullServiceName: the package is left out
bareServiceName(packageName, name) == name

\* extractServicesFromFileDescriptor, the full name of a declared service
fullServiceName(packageName, name) ==
    IF packageName # <<>> THEN packageName \o <<".">> \o name ELSE name

\* the messages protoregistry.GlobalFiles knows: "g.E"
GlobalMessages == { <<"g", ".", "E">> }

\* the full names of the messages a file declares
DeclaredMessages(fd) == { fullServiceName(fd.Package, m) : m \in fd.MessageType }

\* the type names the methods of a file refer to
ReferredTypes(fd) ==
    UNION { UNION { { TrimPrefix(fd.Service[i].Method[j].InputType, <<".">>),
                      TrimPrefix(fd.Service[i].Method[j].OutputType, <<".">>) } :
                    j \in DOMAIN fd.Service[i].Method } :
            i \in DOMAIN fd.Service }

\* protodesc.NewFile: fails when a type the file refers to is declared
\* neither in the file nor in the resolver
NewFileFails(fd) ==
    \E t \in ReferredTypes(fd) : t \notin DeclaredMessages(fd) \cup GlobalMessages

\* reflectionClient.resolveMessageDescriptor: the error, and the full name of
\* the descriptor found
resolveMessageDescriptor(typeName, fd) ==
    LET name == TrimPrefix(typeName, <<".">>)
    IN  IF NewFileFails(fd)
        THEN [err |-> "failed to create file descriptor", desc |-> <<>>]
        ELSE IF name \in DeclaredMessages(fd) \cup GlobalMessages
        THEN [err |-> "", desc |-> name]
        ELSE [err |-> "failed to find message descriptor", desc |-> <<>>]

\* a mutant of createMethodInfo: a method whose output type is not resolved is
\* kept, without its output descriptor
createMethodInfoLax(serviceName, method, fd) ==
    LET in == resolveMessageDescriptor(method.InputType, fd)
        out == resolveMessageDescriptor(method.OutputType, fd)
    IN  [err |-> "",
         info |-> [Name |-> method.Name,
                   FullName |-> serviceName \o <<".">> \o method.Name,
                   Description |-> "",
                   InputType |-> method.InputType,
                   OutputType |-> method.OutputType,
                   InputDescriptor |-> in.desc,
                   OutputDescriptor |-> out.desc,
                   IsClientStreaming |-> method.ClientStreaming,
                   IsServerStreaming |-> method.ServerStreaming]]

\* reflectionClient.createMethodInfo
createMethodInfo(serviceName, method, fd) ==
    LET in == resolveMessageDescriptor(method.InputType, fd)
        out == resolveMessageDescriptor(method.OutputType, fd)
    IN  IF in.err # ""
        THEN [err |-> "failed to resolve input descriptor", info |-> <<>>]
        ELSE IF out.err # ""
        THEN [err |-> "failed to resolve output descriptor", info |-> <<>>]
        ELSE [err |-> "",
              info |-> [Name |-> method.Name,
                        FullName |-> serviceName \o <<".">> \o method.Name,
                        Description |-> "",
                        InputType |-> method.InputType,
                        OutputType |-> method.OutputType,
                        InputDescriptor |-> in.desc,
                        OutputDescriptor |-> out.desc,
                        IsClientStreaming |-> method.ClientStreaming,
                        IsServerStreaming |-> method.ServerStreaming]]

\* the loop over service.Method: a method that fails is left out
RECURSIVE methodInfos(_, _, _, _)
methodInfos(serviceName, methods, fd, i) ==
    IF i > Len(methods) THEN <<>>
    ELSE (IF createMethodInfo(serviceName, methods[i], fd).err # "" THEN <<>>
          ELSE << createMethodInfo(serviceName, methods[i], fd).info >>)
         \o methodInfos(serviceName, methods, fd, i + 1)

\* the loop over fileDescriptor.Service from the i-th service on
RECURSIVE extractServicesFrom(_, _, _)
extractServicesFrom(fd, targetServiceMap, i) ==
    IF i > Len(fd.Service) THEN <<>>
    ELSE (IF fullServiceName(fd.Package, fd.Service[i].Name) \notin targetServiceMap
          THEN <<>>
          ELSE << ServiceInfo(fullServiceName(fd.Package, fd.Service[i].Name),
                              methodInfos(fullServiceName(fd.Package, fd.Service[i].Name),
                                          fd.Service[i].Method, fd, 1),
                              fd) >>)
         \o extractServicesFrom(fd, targetServiceMap, i + 1)

\* reflectionClient.extractServicesFromFileDescriptor
extractServicesFromFileDescriptor(fd, targetServices) ==
    extractServicesFrom(fd, { targetServices[k] : k \in DOMAIN targetServices }, 1)

\* the file descriptors and target lists extractServicesFromFileDescriptor is
\* applied to: a file with or without the package "p" that declares up to
\* three services named S or T, each with the method Do from M to g.E, alone
\* or after the method G from g.E to g.E, and that declares the message M or not
SimpleNames == { <<"S">>, <<"T">> }
PkgP == <<"p">>
MsgM == <<"M">>
MthDoOf(package) ==
    MethodDescriptorProto(MthDo, <<".">> \o fullServiceName(package, MsgM),
                          <<".", "g", ".", "E">>, FALSE, FALSE)
MthGet ==
    MethodDescriptorProto(<<"G">>, <<".", "g", ".", "E">>, <<".", "g", ".", "E">>,
                          FALSE, FALSE)
MethodLists(package) == { << MthDoOf(package) >>, << MthGet, MthDoOf(package) >> }
DeclaredLists == UNION { [1..n -> SimpleNames] : n \in 0..3 }
FilesOf(package) ==
    { FileDescriptorProto(<<"f">>, package,
          [i \in DOMAIN names |-> ServiceDescriptorProto(names[i], methods)],
          messages) :
        names \in DeclaredLists, messages \in {{}, {MsgM}},
        methods \in MethodLists(package) }
FileDescriptors == FilesOf(<<>>) \cup FilesOf(PkgP)
TargetNames == { <<"p", ".", "S">>, <<"p", ".", "T">>, <<"S">>, <<"q", ".", "U">> }
TargetLists == UNION { [1..n -> TargetNames] : n \in 0..2 }

\* a caller applies extractServicesFromFileDescriptor
CallExtractServices ==
    /\ pf.op = "input"
    /\ pf' = [op |-> "extractServicesFromFileDescriptor",
              fileDescriptor |-> pf.fileDescriptor,
              targetServices |-> pf.targetServices,
              services |-> extractServicesFromFileDescriptor(pf.fileDescriptor,
                                                             pf.targetServices)]
    /\ closeLog' = NoCloseLog
    /\ UNCHANGED <<cmConn, connState, reflectionClient, services,
                   descriptorConfig, rc, histVars, dp, held, schemaVars, lockVars>>


(***************************************************************************)
(* Reflection client: discovery through the reflection service.            *)
(*                                                                         *)
(* The server is an input: the names it lists (or a failure to list) and,  *)
(* for every symbol it resolves, the file descriptor it answers with.      *)
(***************************************************************************)
internalPrefixes ==
    << <<"g", "r", "p", "c", ".", "r", "e", "f", "l", "e", "c", "t", "i", "o", "n", ".">>,
       <<"g", "r", "p", "c", ".", "h", "e", "a", "l", "t", "h", ".">>,
       <<"g", "r", "p", "c", ".", "c", "h", "a", "n", "n", "e", "l", "z", ".">>,
       <<"g", "r", "p", "c", ".", "t", "e", "s", "t", "i", "n", "g", ".">> >>

\* a mutant of IsInternal: only the reflection service itself is internal
IsReflectionOnly(service) == HasPrefix(service, internalPrefixes[1])

\* filterInternalServices, the loop over internalPrefixes
IsInternal(service) ==
    \E k \in DOMAIN internalPrefixes : HasPrefix(service, internalPrefixes[k])

RECURSIVE filterFrom(_, _)
filterFrom(list, i) ==
    IF i > Len(list) THEN <<>>
    ELSE (IF IsInternal(list[i]) THEN <<>> ELSE << list[i] >>)
         \o filterFrom(list, i + 1)

\* reflectionClient.filterInternalServices
filterInternalServices(list) == filterFrom(list, 1)

\* a mutant of listServices: a list that fails counts as listed
listServicesNeverFails(client, cs, server) == [err |-> "", names |-> server.list]

\* reflectionClient.listServices
listServices(client, cs, server) ==
    IF cs[client.conn] = Shutdown \/ ~server.listOk
    THEN [err |-> "failed to list services", names |-> <<>>]
    ELSE [err |-> "", names |-> server.list]

\* a mutant of getFileDescriptorBySymbol: the file is cached under the
\* symbol only
getFileDescriptorBySymbolOnly(cache, cs, conn, server, symbol) ==
    IF symbol \in DOMAIN cache
    THEN [err |-> "", fd |-> cache[symbol], cache |-> cache, sessions |-> 0]
    ELSE IF cs[conn] = Shutdown
    THEN [err |-> "failed to create reflection stream", fd |-> <<>>,
          cache |-> cache, sessions |-> 1]
    ELSE IF symbol \notin DOMAIN server.files
    THEN [err |-> "no file descriptor found for symbol", fd |-> <<>>,
          cache |-> cache, sessions |-> 1]
    ELSE [err |-> "", fd |-> server.files[symbol],
          cache |-> MapPut(cache, symbol, server.files[symbol]), sessions |-> 1]

\* reflectionClient.getFileDescriptorBySymbol.  sessions: the calls of
\* ServerReflectionInfo, one per reflection stream asked for
getFileDescriptorBySymbol(cache, cs, conn, server, symbol) ==
    IF symbol \in DOMAIN cache
    THEN [err |-> "", fd |-> cache[symbol], cache |-> cache, sessions |-> 0]
    ELSE IF cs[conn] = Shutdown
    THEN [err |-> "failed to create reflection stream", fd |-> <<>>,
          cache |-> cache, sessions |-> 1]
    ELSE IF symbol \notin DOMAIN server.files
    THEN [err |-> "no file descriptor found for symbol", fd |-> <<>>,
          cache |-> cache, sessions |-> 1]
    ELSE [err |-> "", fd |-> server.files[symbol],
          cache |-> IF server.files[symbol].Name # <<>>
                    THEN MapPut(MapPut(cache, symbol, server.files[symbol]),
                                server.files[symbol].Name, server.files[symbol])
                    ELSE MapPut(cache, symbol, server.files[symbol]),
          sessions |-> 1]

\* DiscoverServices, one turn of the first loop: got is what
\* getFileDescriptorBySymbol returned for serviceName
WithFile(acc, serviceName, got) ==
    IF got.err # ""
    THEN [acc EXCEPT !.cache = got.cache, !.sessions = @ + got.sessions,
                     !.failed = @ \cup {serviceName}]
    ELSE LET fileName == IF got.fd.Name = <<>> THEN serviceName ELSE got.fd.Name
         IN  [acc EXCEPT !.cache = got.cache, !.sessions = @ + got.sessions,
                         !.fileDescriptorMap =
                             IF fileName \in DOMAIN @ THEN @
                             ELSE MapPut(@, fileName, got.fd)]

\* DiscoverServices, the loop over filteredServices
RECURSIVE collectFiles(_, _, _, _, _, _)
collectFiles(cs, conn, server, filtered, i, acc) ==
    IF i > Len(filtered) THEN acc
    ELSE collectFiles(cs, conn, server, filtered, i + 1,
             WithFile(acc, filtered[i],
                      getFileDescriptorBySymbol(acc.cache, cs, conn, server,
                                                filtered[i])))

\* a mutant of appendNew: processedServices is not consulted
appendAll(svcList, fileServices, j) == svcList \o fileServices

\* "if !processedServices[serviceInfo.Name]" over the services of one file
RECURSIVE appendNew(_, _, _)
appendNew(svcList, fileServices, j) ==
    IF j > Len(fileServices) THEN svcList
    ELSE appendNew(IF \E k \in DOMAIN svcList :
                          svcList[k].Name = fileServices[j].Name
                   THEN svcList
                   ELSE Append(svcList, fileServices[j]),
                   fileServices, j + 1)

\* DiscoverServices, the loop over fileDescriptorMap in the order the map
\* yields its keys
RECURSIVE processFiles(_, _, _, _, _)
processFiles(order, fileDescriptorMap, filtered, i, svcList) ==
    IF i > Len(order) THEN svcList
    ELSE processFiles(order, fileDescriptorMap, filtered, i + 1,
             appendNew(svcList,
                       extractServicesFromFileDescriptor(fileDescriptorMap[order[i]],
                                                         filtered),
                       1))

NoFiles == [cache |-> EmptyFdCache, sessions |-> 0, failed |-> {},
            fileDescriptorMap |-> <<>>]

\* DiscoverServices after the files are collected: every result the range
\* over the map can give
DiscoveredFrom(listed, filtered, files) ==
    [err |-> "", listed |-> listed, filtered |-> filtered, cache |-> files.cache,
     sessions |-> files.sessions, failed |-> files.failed,
     fileDescriptorMap |-> files.fileDescriptorMap,
     results |-> { processFiles(o, files.fileDescriptorMap, filtered, 1, <<>>) :
                     o \in Orders(DOMAIN files.fileDescriptorMap) }]

DiscoverFiltered(client, cs, server, listed, filtered) ==
    DiscoveredFrom(listed, filtered,
        collectFiles(cs, client.conn, server, filtered, 1,
                     [NoFiles EXCEPT !.cache = client.fdCache]))

\* reflectionClient.DiscoverServices
reflectionDiscoverServices(client, cs, server) ==
    IF listServices(client, cs, server).err # ""
    THEN [err |-> "failed to list services", listed |-> <<>>, filtered |-> <<>>,
          cache |-> client.fdCache, sessions |-> 0, failed |-> {},
          fileDescriptorMap |-> <<>>, results |-> { <<>> }]
    ELSE DiscoverFiltered(client, cs, server, server.list,
                          filterInternalServices(server.list))

\* The servers: the names listed are up to two of a service S, a service T,
\* a service under each reserved prefix, and names close to a reserved prefix
SvcAS == <<"a", ".", "S">>
SvcAT == <<"a", ".", "T">>
ReservedNames ==
    { <<"g", "r", "p", "c", ".", "r", "e", "f", "l", "e", "c", "t", "i", "o", "n", ".", "R">>,
      <<"g", "r", "p", "c", ".", "h", "e", "a", "l", "t", "h", ".", "H">>,
      <<"g", "r", "p", "c", ".", "c", "h", "a", "n", "n", "e", "l", "z", ".", "C">>,
      <<"g", "r", "p", "c", ".", "t", "e", "s", "t", "i", "n", "g", ".", "T">> }
NearNames ==
    { <<"g", "r", "p", "c", ".", "h", "e", "a", "l", "t", "h">>,
      <<"G", "r", "p", "c", ".", "h", "e", "a", "l", "t", "h", ".", "H">> }
ListedNames == {SvcAS, SvcAT} \cup ReservedNames \cup NearNames
ListedLists == UNION { [1..n -> ListedNames] : n \in 0..2 }

\* the files a server answers with: f1 declares a.S and a.T; f2 declares a.S
\* again and refers to a message nobody declares; a file without name and
\* package declares services whose simple names are full names
PkgA == <<"a">>
FileF1 ==
    FileDescriptorProto(<<"f", "1">>, PkgA,
        << ServiceDescriptorProto(<<"S">>, << MthDoOf(PkgA) >>),
           ServiceDescriptorProto(<<"T">>, << MthDoOf(PkgA) >>) >>,
        {MsgM})
FileF2 ==
    FileDescriptorProto(<<"f", "2">>, PkgA,
        << ServiceDescriptorProto(<<"S">>, << MthDoOf(PkgA) >>) >>, {})
FileUnnamed ==
    FileDescriptorProto(<<>>, <<>>,
        << ServiceDescriptorProto(<<"g", "r", "p", "c", ".", "h", "e", "a", "l", "t", "h", ".", "H">>, << >>),
           ServiceDescriptorProto(SvcAS, << >>) >>, {})
ServerFiles == {FileF1, FileF2, FileUnnamed}

SeqRange(list) == { list[i] : i \in DOMAIN list }

Servers ==
    { [listOk |-> FALSE, list |-> <<>>, files |-> <<>>] }
    \cup UNION { UNION { { [listOk |-> TRUE, list |-> list, files |-> files] :
                             files \in [D -> ServerFiles] } :
                         D \in SUBSET (SeqRange(list) \ ReservedNames) } :
                 list \in ListedLists }

\* what a DiscoverServices that ran the reflection client (result r) and
\* returned d leaves behind
ReflectionDiscovered(server, found, r, d) ==
    /\ services' = d.services
    /\ reflectionClient' = [reflectionClient EXCEPT !.fdCache = r.cache]
    /\ held' = IF d.err = "" THEN Detached(held) ELSE held
    /\ lastDiscover' = NoDiscover
    /\ pf' = [op |-> "reflection.DiscoverServices", server |-> server,
              listed |-> r.listed, filtered |-> r.filtered, err |-> r.err,
              dErr |-> d.err, found |-> found, failed |-> r.failed,
              sessions |-> r.sessions,
              fileDescriptorMap |-> r.fileDescriptorMap]

\* what a lookup that returned got leaves behind
FileLookedUp(symbol, got) ==
    /\ reflectionClient' = [reflectionClient EXCEPT !.fdCache = got.cache]
    /\ pf' = [op |-> "getFileDescriptorBySymbol", server |-> pf.server,
              symbol |-> symbol, before |-> reflectionClient.fdCache,
              err |-> got.err, fd |-> got.fd, sessions |-> got.sessions]

\* the symbols looked up: the names the server lists, the names of the
\* files it answers with, and a name it does not know
SvcUnknown == <<"a", ".", "U">>
LookupSymbols(server) ==
    (SeqRange(server.list) \ ReservedNames)
    \cup { server.files[n].Name : n \in DOMAIN server.files }
    \cup {SvcUnknown}

\* a lookup of one symbol through getFileDescriptorBySymbol (as
\* getServiceInfo and DiscoverServices make it)
CallGetFileDescriptorBySymbol ==
    /\ ~reflectionClient.isNil
    /\ \E symbol \in LookupSymbols(pf.server) \ { <<>> } :
          FileLookedUp(symbol,
                       getFileDescriptorBySymbol(reflectionClient.fdCache, connState,
                                                 reflectionClient.conn, pf.server, symbol))
    /\ lastInvoke' = NoInvoke
    /\ lastDiscover' = NoDiscover
    /\ lastConnect' = NoConnect
    /\ closeLog' = NoCloseLog
    /\ UNCHANGED <<cmConn, connState, services, descriptorConfig, rc, dp, held,
                   schemaVars, lockVars>>

\* serviceDiscoverer.DiscoverServices of a discoverer without descriptor
\* store, the reflection client answered by the server of this run
DiscoverByReflection ==
    /\ ~reflectionClient.isNil
    /\ \E server \in {pf.server} :
        \E found \in reflectionDiscoverServices(reflectionClient, connState, server).results :
            /\ ReflectionDiscovered(server, found,
                   reflectionDiscoverServices(reflectionClient, connState, server),
                   DiscoverServices(reflectionClient, services, connState,
                                    descriptorConfig, "ok", <<>>,
                                    reflectionDiscoverServices(reflectionClient,
                                        connState, server).err = "",
                                    found))
            /\ lastInvoke' = NoInvoke
            /\ lastConnect' = NoConnect
            /\ closeLog' = NoCloseLog
            /\ UNCHANGED <<cmConn, connState, descriptorConfig, rc, dp, schemaVars, lockVars>>


(***************************************************************************)
(* Calls running side by side.  Every operation is the list of what it     *)
(* does to the locks, in program order, with the places where it reads or  *)
(* writes the discoverer's and the manager's fields ("Do").  A Lock is two  *)
(* steps: the goroutine starts to wait, then it gets the lock.             *)
(***************************************************************************)
InsRLock(m) == <<"RLock", m>>
InsRUnlock(m) == <<"RUnlock", m>>
InsLock(m) == << <<"LockRequested", m>>, <<"Lock", m>> >>
InsUnlock(m) == <<"Unlock", m>>
InsDo(what) == <<"Do", what>>

\* connectionManager.IsConnected
cmIsConnectedCode == << InsRLock("cm"), InsRUnlock("cm") >>

\* serviceDiscoverer.IsConnected
IsConnectedCode == cmIsConnectedCode

\* serviceDiscoverer.GetMethodCount
GetMethodCountCode == << InsRLock("d"), InsRUnlock("d") >>

\* serviceDiscoverer.GetServiceStats
GetServiceStatsCode ==
    << InsRLock("d") >> \o GetMethodCountCode \o IsConnectedCode \o << InsRUnlock("d") >>

\* connectionManager.GetStats; "IfConn": the two instructions that follow
\* run only when cm.conn != nil
GetStatsCode ==
    << InsRLock("cm"), <<"IfConn", "cm">> >> \o cmIsConnectedCode \o << InsRUnlock("cm") >>

\* serviceDiscoverer.GetMethod
GetMethodCode == << InsRLock("d"), InsRUnlock("d") >>

\* serviceDiscoverer.InvokeMethod: the nil test of d.reflectionClient,
\* GetMethod, the call through d.reflectionClient
InvokeMethodCode == << InsDo("check") >> \o GetMethodCode \o << InsDo("call") >>

\* serviceDiscoverer.HealthCheck: connManager.HealthCheck, the nil test, the
\* call through d.reflectionClient
HealthCheckCode ==
    << InsRLock("cm"), InsRUnlock("cm"), InsDo("check"), InsDo("call") >>

\* serviceDiscoverer.Close: connManager.Close runs inside d.mu
CloseCode ==
    InsLock("d") \o InsLock("cm") \o << InsDo("Close"), InsUnlock("cm"), InsUnlock("d") >>

\* serviceDiscoverer.Connect: connManager.Connect, then GetConnection
ConnectCode ==
    InsLock("cm") \o << InsDo("Connect"), InsUnlock("cm"), InsRLock("cm"), InsRUnlock("cm") >>

\* serviceDiscoverer.DiscoverServices: the catalog is replaced inside d.mu
DiscoverServicesCode ==
    InsLock("d") \o << InsDo("DiscoverServices"), InsUnlock("d") >>

Code ==
    [GetMethodCount |-> GetMethodCountCode, GetServiceStats |-> GetServiceStatsCode,
     GetStats |-> GetStatsCode, InvokeMethod |-> InvokeMethodCode,
     HealthCheck |-> HealthCheckCode, Close |-> CloseCode, Connect |-> ConnectCode,
     DiscoverServices |-> DiscoverServicesCode]

Operations == DOMAIN Code

\* the instruction goroutine g is at
Ins(g) == Code[goroutines[g].op][goroutines[g].at]

Running(g) == goroutines[g].op # "none"
Panicked == \E g \in Procs : goroutines[g].panic

\* goroutine g moves on by n instructions; the call returns after the last
Advanced(g, n) ==
    IF goroutines[g].at + n > Len(Code[goroutines[g].op])
    THEN [goroutines EXCEPT ![g] = IdleCall]
    ELSE [goroutines EXCEPT ![g].at = @ + n]

dataVars ==
    <<cmConn, connState, reflectionClient, services, descriptorConfig, rc, histVars,
      dp, held, closeLog, pf, schemaVars>>

\* a goroutine enters one of the operations
Begin(g) ==
    \E op \in Operations :
        /\ ~Running(g) /\ ~Panicked
        /\ goroutines' = [goroutines EXCEPT ![g] = [IdleCall EXCEPT !.op = op, !.at = 1]]
        /\ UNCHANGED <<locks, dataVars>>

\* one step of a goroutine on a lock
LockStep(g) ==
    /\ Running(g) /\ ~Panicked
    /\ Ins(g)[1] \in {"RLock", "RUnlock", "LockRequested", "Lock", "Unlock"}
    /\ LET m == Ins(g)[2]
       IN  CASE Ins(g)[1] = "RLock" ->
                   /\ CanRLock(locks[m])
                   /\ locks' = [locks EXCEPT ![m] = RLock(@, g)]
             [] Ins(g)[1] = "RUnlock" ->
                   locks' = [locks EXCEPT ![m] = RUnlock(@, g)]
             [] Ins(g)[1] = "LockRequested" ->
                   locks' = [locks EXCEPT ![m] = LockRequested(@, g)]
             [] Ins(g)[1] = "Lock" ->
                   /\ CanLock(locks[m])
                   /\ locks' = [locks EXCEPT ![m] = Lock(@, g)]
             [] Ins(g)[1] = "Unlock" ->
                   locks' = [locks EXCEPT ![m] = Unlock(@, g)]
    /\ goroutines' = Advanced(g, 1)
    /\ UNCHANGED dataVars

\* GetStats, "if cm.conn != nil"
BranchStep(g) ==
    /\ Running(g) /\ ~Panicked
    /\ Ins(g)[1] = "IfConn"
    /\ goroutines' = Advanced(g, IF cmConn # Nil THEN 1 ELSE 3)
    /\ UNCHANGED <<locks, dataVars>>

\* InvokeMethod and HealthCheck, "if d.reflectionClient == nil": the call
\* returns its error when the reference is nil
CheckStep(g) ==
    /\ Running(g) /\ ~Panicked
    /\ Ins(g) = InsDo("check")
    /\ goroutines' =
         IF reflectionClient.isNil
         THEN [goroutines EXCEPT ![g] = IdleCall]
         ELSE [goroutines EXCEPT ![g].at = @ + 1, ![g].seen = reflectionClient]
    /\ UNCHANGED <<locks, dataVars>>

\* InvokeMethod and HealthCheck, the call through d.reflectionClient: the
\* field is read again, without a lock, so the read yields what the field
\* holds or what it held at the test; a call through nil panics
CallStep(g) ==
    /\ Running(g) /\ ~Panicked
    /\ Ins(g) = InsDo("call")
    /\ \E read \in {reflectionClient, goroutines[g].seen} :
          goroutines' =
             IF read.isNil
             THEN [goroutines EXCEPT ![g].panic = TRUE, ![g].seen = read]
             ELSE [goroutines EXCEPT ![g] = IdleCall]
    /\ UNCHANGED <<locks, dataVars>>

\* one dial that succeeds and one that fails
LockDials ==
    { [dialOk |-> TRUE, st |-> Ready, changed |-> FALSE, st2 |-> Idle],
      [dialOk |-> FALSE, st |-> Idle, changed |-> FALSE, st2 |-> Ready] }

LockDiscovers ==
    { a \in DiscoverAnswers : a.fd = "ok" /\ a.content = <<>> /\ a.listOk
                                /\ a.found = <<ReflHello>> }

\* the bodies of Connect, Close and DiscoverServices, run by the goroutine
\* that holds the lock
WriteStep(g) ==
    /\ Running(g) /\ ~Panicked
    /\ \/ Ins(g) = InsDo("Connect") /\ ConnectWith(LockDials, {TRUE})
       \/ Ins(g) = InsDo("Close") /\ CloseLocked
       \/ Ins(g) = InsDo("DiscoverServices") /\ DiscoverWith(LockDiscovers)
    /\ goroutines' = Advanced(g, 1)
    /\ UNCHANGED locks


\* serviceDiscoverer.IsConnected
IsConnected(conn, cs, client) == cmIsConnected(conn, cs) /\ ~client.isNil


\* The state NewServiceDiscoverer leaves, but for the configuration.
ServiceConstructed ==
    /\ cmConn = Nil
    /\ connState = [id \in ConnIds |-> "Free"]
    /\ reflectionClient = NilClient
    /\ services = EmptyCatalog
    /\ rc = RcIdle
    /\ lastInvoke = NoInvoke
    /\ lastDiscover = NoDiscover
    /\ dp = DpIdle
    /\ held = NoHeld
    /\ closeLog = NoCloseLog
    /\ lastConnect = NoConnect
    /\ locks = FreeLocks
    /\ goroutines = NoCalls

Constructed ==
    /\ ServiceConstructed
    /\ pf = NoPf
    /\ descs = NoDescs
    /\ schemaCache = EmptyCache

Init ==
    /\ Constructed
    /\ descriptorConfig \in { DescriptorSetConfig(FALSE, "", FALSE),
                              DescriptorSetConfig(TRUE, "set.binpb", TRUE) }

\* (service, method) pairs a caller may name: unary, server-streaming and
\* client-streaming methods, a method no source knows, a service no source
\* knows, and a second service.
Targets ==
    { <<SvcHello, MthDo>>, <<SvcHello, MthWatch>>, <<SvcHello, MthSend>>,
      <<SvcHello, MthNone>>, <<SvcNone, MthDo>>, <<SvcData, MthDo>> }

FewHeaders == { NoHeaders, [k \in {Keyb} |-> "3"] }

Next ==
    \/ Connect
    \/ Discover
    \/ CallInvokeMethod({BackgroundCtx}, Targets, InputJSONs)
    \/ CallInvokeMethodWithHeaders({BackgroundCtx}, FewHeaders, Targets, InputJSONs)
    \/ Close

Spec == Init /\ [][Next]_vars

\* newServiceDiscovererWithConnManager: no descriptor store.
CtxInit ==
    /\ Constructed
    /\ descriptorConfig = DescriptorSetConfig(FALSE, "", FALSE)

FewTargets == { <<SvcHello, MthDo>>, <<SvcHello, MthWatch>> }

CtxNext ==
    \/ Connect
    \/ Discover
    \/ CallInvokeMethod(Contexts, FewTargets, {"{\"name\":\"x\"}"})
    \/ CallInvokeMethodWithHeaders(Contexts, HeaderMaps, FewTargets, {"{\"name\":\"x\"}"})
    \/ HandleToolsCall(Contexts, FewHeaders, FewTargets, {"{\"name\":\"x\"}"})
    \/ Close

CtxSpec == CtxInit /\ [][CtxNext]_vars

(***************************************************************************)
(* Specification of discovery: every descriptor configuration, then any    *)
(* sequence of Connect, DiscoverServices and Close.                        *)
(***************************************************************************)

DiscInit ==
    /\ Constructed
    /\ descriptorConfig \in { DescriptorSetConfig(e, p, f) :
                                e \in BOOLEAN, p \in {"", "set.binpb"}, f \in BOOLEAN }

DiscNext ==
    \/ Connect
    \/ Discover
    \/ Close

DiscSpec == DiscInit /\ [][DiscNext]_vars

(***************************************************************************)
(* Specifications of Reconnect: a discoverer without or with a descriptor  *)
(* store, Reconnect calls one after the other, each running while the      *)
(* caller may cancel its context, and Connect and Close in between.        *)
(* RecFairSpec adds what the scheduler and the timer guarantee: a runnable *)
(* Reconnect runs, the calls of an attempt return, and the timer of a wait *)
(* fires.                                                                  *)
(***************************************************************************)

\* Answers to an attempt's dial: no transport, a transport that stays idle,
\* a ready one, a failing one.
RecDials == {a \in DialAnswers : ~a.changed /\ a.st \in {Idle, Ready, TransientFailure}}

\* Answers to an attempt's discovery.
RecDiscovers ==
    {d \in DiscoverAnswers :
        /\ d.fd \in {"ok", "load_failed"}
        /\ d.content = <<EnhHello>>
        /\ d.found \in {<<>>, <<ReflHello>>}}

RecInit ==
    /\ Constructed
    /\ descriptorConfig \in { DescriptorSetConfig(FALSE, "", FALSE),
                              DescriptorSetConfig(TRUE, "set.binpb", FALSE) }

RecNext ==
    \/ ReconnectStart
    \/ ReconnectAttempt(RecDials, RecDiscovers)
    \/ ReconnectWait
    \/ CancelCtx
    \/ TimerFire
    \/ Connect
    \/ Close

RecSpec == RecInit /\ [][RecNext]_vars

RecFairSpec ==
    /\ RecInit
    /\ [][RecNext]_vars
    /\ WF_vars(ReconnectAttempt(RecDials, RecDiscovers))
    /\ WF_vars(ReconnectWait)
    /\ WF_vars(TimerFire)

(***************************************************************************)
(* Specification of discovery beside readers: Connect and Close run while  *)
(* no pass is running, a pass runs one source at a time, and readers run   *)
(* at any moment.                                                          *)
(***************************************************************************)

ConcInit ==
    /\ Constructed
    /\ descriptorConfig \in { DescriptorSetConfig(FALSE, "", FALSE),
                              DescriptorSetConfig(TRUE, "set.binpb", FALSE) }

\* Answers to a pass: the store fails early, fails late or loads; reflection
\* fails, finds nothing or finds a service.
ConcDiscovers ==
    {d \in DiscoverAnswers :
        /\ d.fd # "registry_failed"
        /\ d.content = <<EnhHello>>
        /\ d.found \in {<<>>, <<ReflHello>>}}

ConcNext ==
    \/ (dp.pc \notin {"fd", "refl"} /\ Connect)
    \/ (dp.pc \notin {"fd", "refl"} /\ Close)
    \/ DiscoverBegin(ConcDiscovers)
    \/ DiscoverFd
    \/ DiscoverRefl
    \/ Read({<<SvcHello, MthDo>>})

ConcSpec == ConcInit /\ [][ConcNext]_vars

(***************************************************************************)
(* Specification of a caller holding the map of GetServices while the      *)
(* discoverer connects, discovers and closes.                              *)
(***************************************************************************)

CopyNext ==
    \/ Connect
    \/ Discover
    \/ Close
    \/ CallGetServices
    \/ CallerMutates({SvcHello, SvcNone})

CopySpec == ConcInit /\ [][CopyNext]_vars

(***************************************************************************)
(* Specification of the connection manager on its own.                     *)
(***************************************************************************)

CmNext ==
    \/ CmConnect
    \/ CmClose
    \/ CmIsConnected
    \/ CmHealthCheck
    \/ TransportChange

CmSpec == CtxInit /\ [][CmNext]_vars

(***************************************************************************)
(* Specification of tool names: a connected discoverer, discovery passes   *)
(* and lookups of generated names.                                         *)
(***************************************************************************)

ToolNext ==
    \/ Connect
    \/ DiscoverTools
    \/ ParseGeneratedName

ToolSpec == CtxInit /\ [][ToolNext]_vars

\* one of the two schema compilers applied, again and again, to the
\* descriptors of a descriptor set of DescsUniverse
SchemaInit ==
    /\ ServiceConstructed
    /\ descriptorConfig = DescriptorSetConfig(FALSE, "", FALSE)
    /\ descs \in DescsUniverse
    /\ schemaCache = EmptyCache
    /\ \E compiler \in Compilers : pf = NoCompile(compiler)

SchemaNext ==
    \/ CallExtractMessageSchema
    \/ CallExtractFieldSchema
    \/ CallBuildTool

SchemaSpec == SchemaInit /\ [][SchemaNext]_vars

\* extractServicesFromFileDescriptor applied to every file descriptor of
\* FileDescriptors with every target list of TargetLists
ExtractInit ==
    /\ ServiceConstructed
    /\ descriptorConfig = DescriptorSetConfig(FALSE, "", FALSE)
    /\ descs = NoDescs
    /\ schemaCache = EmptyCache
    /\ \E fd \in FileDescriptors, targets \in TargetLists :
            pf = [op |-> "input", fileDescriptor |-> fd, targetServices |-> targets]

ExtractNext == CallExtractServices

ExtractSpec == ExtractInit /\ [][ExtractNext]_vars

\* reflection discovery and lookups, the server chosen from Servers when the
\* run begins; Connect dials a transport that is ready, or fails to dial
ReflNext ==
    \/ (ConnectWith(LockDials, {TRUE}) /\ UNCHANGED lockVars)
    \/ DiscoverByReflection
    \/ CallGetFileDescriptorBySymbol

ReflInit ==
    /\ ServiceConstructed
    /\ descriptorConfig = DescriptorSetConfig(FALSE, "", FALSE)
    /\ descs = NoDescs
    /\ schemaCache = EmptyCache
    /\ \E server \in Servers : pf = [op |-> "input", server |-> server]

ReflSpec == ReflInit /\ [][ReflNext]_vars

\* calls of two goroutines side by side
LockNext ==
    \E g \in Procs :
        \/ Begin(g)
        \/ LockStep(g)
        \/ BranchStep(g)
        \/ CheckStep(g)
        \/ CallStep(g)
        \/ WriteStep(g)

LockSpec == CtxInit /\ [][LockNext]_vars

(***************************************************************************)
(* The tool builder applied to a catalog.                                  *)
(***************************************************************************)
ToolsInit ==
    /\ ServiceConstructed
    /\ descriptorConfig = DescriptorSetConfig(FALSE, "", FALSE)
    /\ descs \in CatalogDescs
    /\ schemaCache = EmptyCache
    /\ \E catalog \in Catalogs : pf = [op |-> "input", catalog |-> catalog]

ToolsNext == CallBuildTools

ToolsSpec == ToolsInit /\ [][ToolsNext]_vars

(***************************************************************************)
(* Properties of the invocation paths.                                     *)
(***************************************************************************)

DiscovererEntry == {"InvokeMethod", "InvokeMethodWithHeaders"}

\* The catalog holds the named method with a streaming flag set.
StreamingInCatalog(sn, mn) ==
    /\ sn \in DOMAIN services
    /\ \E i \in DOMAIN services[sn].Methods :
          /\ services[sn].Methods[i].Name = mn
          /\ (services[sn].Methods[i].IsClientStreaming
                \/ services[sn].Methods[i].IsServerStreaming)

\* The catalog holds the named (service, method) pair.
InCatalog(sn, mn) ==
    /\ sn \in DOMAIN services
    /\ \E i \in DOMAIN services[sn].Methods : services[sn].Methods[i].Name = mn

\* C1: with a backend present, InvokeMethod and InvokeMethodWithHeaders on a
\* catalog method that has the client-streaming or the server-streaming flag
\* return the streaming-not-supported error with an empty result, whatever the
\* payload, and make no call on the backend.
C1_StreamingRejected ==
    (/\ lastInvoke.op \in DiscovererEntry
     /\ lastInvoke.hadClient
     /\ StreamingInCatalog(lastInvoke.serviceName, lastInvoke.methodName))
    => (/\ lastInvoke.err = ErrStreaming
        /\ lastInvoke.out = ""
        /\ lastInvoke.backend = <<>>)

C1_Witness ==
    /\ lastInvoke.op = "InvokeMethodWithHeaders"
    /\ lastInvoke.hadClient
    /\ lastInvoke.serviceName = SvcHello
    /\ lastInvoke.methodName = MthWatch
    /\ StreamingInCatalog(SvcHello, MthWatch)
    /\ lastInvoke.inputJSON = "{\"name\":\"x\"}"
    /\ lastInvoke.err = ErrStreaming

\* C2: with a backend present, InvokeMethod and InvokeMethodWithHeaders for a
\* (service, method) pair the catalog does not hold return the not-found error
\* with an empty result and make no call on the backend.
C2_NotFoundNoCall ==
    (/\ lastInvoke.op \in DiscovererEntry
     /\ lastInvoke.hadClient
     /\ ~InCatalog(lastInvoke.serviceName, lastInvoke.methodName))
    => (/\ lastInvoke.err = ErrNotFound
        /\ lastInvoke.out = ""
        /\ lastInvoke.backend = <<>>)

C2_Witness ==
    /\ lastInvoke.op = "InvokeMethod"
    /\ lastInvoke.hadClient
    /\ lastInvoke.serviceName = SvcHello
    /\ lastInvoke.methodName = MthNone
    /\ SvcHello \in DOMAIN services
    /\ lastInvoke.err = ErrNotFound

\* C3: without a backend (never connected, or closed), InvokeMethod and
\* InvokeMethodWithHeaders return the not-connected error with an empty result
\* and call nothing, whatever the service, method, headers and payload.
C3_NotConnectedFirst ==
    (lastInvoke.op \in DiscovererEntry /\ ~lastInvoke.hadClient)
    => (/\ lastInvoke.err = ErrNotConnected
        /\ lastInvoke.out = ""
        /\ lastInvoke.backend = <<>>)

C3_Witness ==
    /\ lastInvoke.op = "InvokeMethodWithHeaders"
    /\ ~lastInvoke.hadClient
    /\ lastInvoke.headers # NoHeaders
    /\ lastInvoke.serviceName = SvcHello
    /\ lastInvoke.methodName = MthDo
    /\ lastInvoke.err = ErrNotConnected

\* C4: when InvokeMethodWithHeaders reaches the backend, the outgoing metadata
\* of the backend's context is the caller's metadata, unchanged and in front,
\* followed by exactly one (key, value) entry per supplied header; with no
\* headers it is the caller's metadata.  Read by key, the values the caller
\* had come first and each header's value is among those of its key.
C4_HeadersAppended ==
    (lastInvoke.op = "InvokeMethodWithHeaders" /\ lastInvoke.backend # <<>>)
    => LET pre == lastInvoke.ctx.md
           post == lastInvoke.backend[1].ctx.md
           H == lastInvoke.headers
       IN  /\ Len(post) = Len(pre) + Cardinality(DOMAIN H)
           /\ SubSeq(post, 1, Len(pre)) = pre
           /\ \A k \in DOMAIN H :
                 /\ \E i \in (Len(pre) + 1)..Len(post) : post[i] = <<k, H[k]>>
                 /\ \E j \in DOMAIN mdGet(post, k) : mdGet(post, k)[j] = H[k]
                 /\ SubSeq(mdGet(post, k), 1, Len(mdGet(pre, k))) = mdGet(pre, k)
           /\ (DOMAIN H = {} => post = pre)

C4_Witness ==
    /\ lastInvoke.op = "InvokeMethodWithHeaders"
    /\ lastInvoke.backend # <<>>
    /\ lastInvoke.ctx.md = << <<Keyxa, "0">> >>
    /\ DOMAIN lastInvoke.headers = {KeyXa, Keyxa}
    /\ mdGet(lastInvoke.backend[1].ctx.md, Keyxa) = <<"0", "2", "1">>

C6_CancelledNoAttempt ==
    rc.cancelledAtCall
    => (/\ rc.attempts = 0
        /\ (rc.pc = "done" => rc.result.kind = "ctx"))

C7_Safety ==
    /\ rc.attempts <= maxReconnectAttempts
    /\ rc.waits <= maxReconnectAttempts - 1
    /\ rc.waits <= rc.attempts
    /\ rc.attempts - rc.failures \in {0, 1}
    /\ (rc.attempts - rc.failures = 1
        => rc.pc = "done" /\ rc.result.kind = "ok" /\ rc.result.attempts = rc.attempts)
    /\ (rc.pc = "done" => rc.result.kind \in {"ok", "ctx", "exhausted"})
    /\ (rc.pc = "done" /\ rc.result.kind = "ok" => rc.attempts = rc.failures + 1)
    /\ (rc.pc = "done" /\ rc.result.kind = "exhausted"
        => /\ rc.attempts = maxReconnectAttempts
           /\ rc.failures = maxReconnectAttempts
           /\ rc.result.attempts = maxReconnectAttempts
           /\ rc.result.wraps = rc.lastErr
           /\ rc.lastErr.attempt = maxReconnectAttempts
           /\ rc.lastErr.what # "nil")

C8_CancelDuringWait ==
    [][/\ (rc.pc = "wait" /\ rc.ctxDone /\ rc.wake # "timer" /\ rc'.pc # "wait")
          => (/\ rc'.pc = "done"
              /\ rc'.result.kind = "ctx"
              /\ rc'.attempts = rc.attempts
              /\ UNCHANGED <<cmConn, connState, reflectionClient, services>>)
       /\ (rc.pc = "done" /\ rc.result.kind = "ctx" /\ rc' # rc)
          => (rc'.attempts = 0 /\ rc'.pc = "try")]_vars

C8_Witness ==
    /\ rc.pc = "done"
    /\ rc.result.kind = "ctx"
    /\ rc.cancelledIn = "wait"
    /\ rc.wake = "ctx"
    /\ rc.attempts = 2
    /\ rc.waits = 2

\* The catalog's entries by their source: the descriptor store leaves
\* FileDescriptor unset, reflection sets it.
FromDescriptorStore(svcs) == \A n \in DOMAIN svcs : svcs[n].FileDescriptor = "nil"

FromReflection(svcs) == \A n \in DOMAIN svcs : svcs[n].FileDescriptor # "nil"

\* The catalog holds the services of the list (names and methods), no other.
SameServices(svcs, list) ==
    /\ DOMAIN svcs = {list[i].Name : i \in DOMAIN list}
    /\ \A i \in DOMAIN list : svcs[list[i].Name].Methods = list[i].Methods

C10_PreferSelects ==
    (/\ lastDiscover.op = "DiscoverServices"
     /\ lastDiscover.hadClient
     /\ descriptorConfig.Enabled
     /\ descriptorConfig.Path # ""
     /\ lastDiscover.fd = "ok"
     /\ lastDiscover.listOk
     /\ connState[reflectionClient.conn] # Shutdown)
    => IF descriptorConfig.PreferOverReflection
       THEN FromDescriptorStore(services) /\ SameServices(services, lastDiscover.content)
       ELSE FromReflection(services) /\ SameServices(services, lastDiscover.found)

\* C11: whatever a reader finds while a DiscoverServices pass is running is
\* the catalog the pass began with or the catalog the pass leaves when it
\* has returned without error: never a cleared or partly filled one.
C11_ReadersSeeWholePass ==
    \A o \in dp.seen :
        \/ o = dp.prev
        \/ (dp.pc = "done" /\ dp.err = "" /\ o = dp.final)

\* C12: a step in which the caller adds, deletes or replaces an entry of the
\* map GetServices returned leaves the catalog, and so the result of every
\* reader, as it was; and a step that changes the catalog (a discovery that
\* rebuilds it, Close) leaves the map the caller holds as it was.
C12_GetServicesCopy ==
    [][/\ (held.has /\ held'.has /\ held'.m # held.m /\ held'.op # "GetServices")
          => (/\ services' = services
              /\ \A reader \in Readers, t \in FewTargets :
                    ReadResult(reader, services', t[1], t[2])
                        = ReadResult(reader, services, t[1], t[2]))
       /\ (held.has /\ services' # services) => held'.m = held.m]_vars

C12_Witness ==
    /\ held.has
    /\ held.op = "delete"
    /\ held.m = EmptyCatalog
    /\ DOMAIN held.orig = {SvcHello}
    /\ services = held.orig

\* C13: after a Connect (or Reconnect) of the manager whose dial succeeded,
\* the probe has run on the new transport: when it fails the call returns an
\* error, the new transport is closed and the handle is cleared, so that
\* GetConnection returns no connection and IsConnected is false; when it
\* passes the handle is the new transport, which is ready.
C13_ProbeFailureTearsDown ==
    (pf.op \in {"Connect", "Reconnect"} /\ pf.a.dialOk)
    => LET probeFails ==
               \/ pf.a.st = TransientFailure
               \/ (pf.a.st # Ready /\ (~pf.a.changed \/ pf.a.st2 # Ready))
       IN  IF probeFails
           THEN /\ pf.err # ""
                /\ pf.dialed # Nil
                /\ pf.dialedState = Shutdown
                /\ pf.dialed \in pf.closed
                /\ cmConn = Nil
                /\ GetConnection(cmConn) = Nil
                /\ ~cmIsConnected(cmConn, connState)
           ELSE /\ pf.err = ""
                /\ cmConn = pf.dialed
                /\ pf.dialedState = Ready

C13_Witness ==
    /\ pf.op = "Connect"
    /\ pf.a.dialOk
    /\ pf.a.st = Idle
    /\ ~pf.a.changed
    /\ pf.before # Nil
    /\ pf.err = "health check failed"
    /\ cmConn = Nil

\* C14: in every state IsConnected is true exactly when the manager holds a
\* handle and the handle's transport is Ready or Idle, and that is what a
\* call of it returns.
C14_IsConnectedIff ==
    LET healthy == cmConn # Nil /\ connState[cmConn] \in {Ready, Idle}
    IN  /\ cmIsConnected(cmConn, connState) <=> healthy
        /\ (pf.op = "IsConnected" => (pf.result <=> healthy))

C14_Witness ==
    /\ pf.op = "IsConnected"
    /\ cmConn # Nil
    /\ connState[cmConn] = Shutdown
    /\ ~pf.result

\* C15: a Close of the manager leaves no handle; with a handle on an open
\* transport it closes that transport and nothing else; with no handle
\* (after a Close, or before any Connect) it returns no error, closes
\* nothing and changes nothing.
C15_CloseIdempotent ==
    [][pf'.op = "Close"
       => (/\ cmConn' = Nil
           /\ (cmConn # Nil /\ connState[cmConn] # Shutdown)
              => (pf'.closed = {cmConn} /\ pf'.err = "")
           /\ (cmConn = Nil)
              => (pf'.err = "" /\ pf'.closed = {} /\ connState' = connState))]_vars

C15_Witness ==
    /\ pf.op = "Close"
    /\ pf.before = Nil
    /\ pf.err = ""
    /\ pf.closed = {}
    /\ cmConn = Nil

\* C16: in a Close of the discoverer the reflection client closes no
\* transport that is the manager's, and the manager's Close does not close a
\* transport that the same Close has closed already.
C16_OnlyManagerCloses ==
    closeLog.ran
    => (/\ ~(closeLog.byClient # Nil /\ closeLog.byClient = closeLog.byManager)
        /\ ~closeLog.twice)

\* C17: the tool name generated for a (service, method) pair of the catalog
\* is lower(service with "." replaced by "_"), "_", lower(method), and
\* parseToolName of that name against the same catalog returns that pair.
C17_ToolNameRoundTrip ==
    pf.op = "parseToolName"
    => (/\ pf.toolName = ToLower(ReplaceAll(pf.service, ".", "_")) \o <<"_">>
                              \o ToLower(pf.method)
        /\ pf.parsed = <<pf.service, pf.method>>)


(***************************************************************************)
(* Schema compilation on cyclic type graphs.                               *)
(***************************************************************************)
IsRefTo(schema, fullName) ==
    /\ "$ref" \in DOMAIN schema
    /\ schema["$ref"] = "#/definitions/" \o fullName
    /\ "properties" \notin DOMAIN schema

\* the schema compiled for the descriptor fullName below the given ancestors:
\* no path was cut off, and every field whose type is the descriptor itself
\* or one of its ancestors is a $ref to that type
RECURSIVE CyclesCut(_, _, _)
CyclesCut(fullName, schema, ancestors) ==
    /\ schema # Overflow
    /\ \A i \in DOMAIN descs[fullName].fields :
        LET field == descs[fullName].fields[i]
            property == schema.properties[field.name]
            s == IF IsList(field) THEN property.items ELSE property
        IN  (field.kind = "message" /\ field.message \in UserTypes) =>
                IF field.message \in ancestors \cup {fullName}
                THEN IsRefTo(s, field.message)
                ELSE \/ "$ref" \in DOMAIN s
                     \/ CyclesCut(field.message, s, ancestors \cup {fullName})

\* C18: on every type graph, the cyclic ones included, compilation by the
\* schema extractor and by the tool builder ends, and a field whose type is
\* already an ancestor on the path is the $ref of that type, not expanded
C18_CompilationEndsOnCycles ==
    /\ pf.op = "ExtractMessageSchema" =>
           pf.err = "" /\ CyclesCut(pf.type, pf.schema, {})
    /\ pf.op = "BuildTool" =>
           /\ pf.err = ""
           /\ CyclesCut(pf.method.InputDescriptor, pf.schema, {})
           /\ CyclesCut(pf.method.InputDescriptor, pf.tool.InputSchema, {})
           /\ CyclesCut(pf.method.OutputDescriptor, pf.tool.OutputSchema, {})

C18_Witness ==
    /\ pf.op = "ExtractMessageSchema"
    /\ pf.type = TypeA
    /\ Len(descs[TypeA].fields) = 1 /\ Len(descs[TypeB].fields) = 1
    /\ descs[TypeA].fields[1].message = TypeB
    /\ descs[TypeB].fields[1].message = TypeA
    /\ pf.schema.properties.f1.properties.f1 = Ref(TypeA)


\* C19: a descriptor without cycles compiled twice by the same compiler gives
\* the same schema both times: a compilation of a type the compiler compiled
\* before returns the schema the first compilation returned
C19_CompilingTwiceSame ==
    (pf.op # "none" /\ pf.err = "" /\ pf.earlier # NoSchema
        /\ Acyclic(descs, pf.type))
    => pf.schema = pf.earlier


(***************************************************************************)
(* Well-known wrapper types.                                               *)
(***************************************************************************)
\* the JSON type of the scalar a wrapper boxes
UnwrappedType ==
    (StringValue :> "string") @@ (BoolValue :> "boolean")
    @@ (Int64Value :> "integer") @@ (DoubleValue :> "number")

\* in the schema compiled for the descriptor fullName, every singular field
\* whose message type is a wrapper has the type of the boxed scalar and no
\* properties of its own
WrappersUnwrapped(fullName, schema) ==
    \A i \in DOMAIN descs[fullName].fields :
        LET field == descs[fullName].fields[i]
            s == schema.properties[field.name]
        IN  (field.kind = "message" /\ field.message \in DOMAIN UnwrappedType
                /\ ~IsList(field))
            => /\ "type" \in DOMAIN s
               /\ s.type = UnwrappedType[field.message]
               /\ "properties" \notin DOMAIN s

\* C20: a field whose message type is a boxed scalar wrapper compiles to the
\* schema of the scalar (string, boolean, integer, number), never to a nested
\* object, in the schema extractor and in the tool builder
C20_WrappersCompileToScalars ==
    /\ (pf.op = "ExtractMessageSchema" /\ pf.err = "")
           => WrappersUnwrapped(pf.type, pf.schema)
    /\ (pf.op = "BuildTool" /\ pf.err = "")
           => /\ WrappersUnwrapped(pf.method.InputDescriptor, pf.tool.InputSchema)
              /\ WrappersUnwrapped(pf.method.OutputDescriptor, pf.tool.OutputSchema)


(***************************************************************************)
(* The services extracted from a file descriptor.                          *)
(***************************************************************************)
\* the fully-qualified name of the i-th service a file declares
QualifiedName(fd, i) ==
    IF fd.Package = <<>> THEN fd.Service[i].Name
    ELSE fd.Package \o <<".">> \o fd.Service[i].Name

\* the declared services whose fully-qualified name is in the target list
Targeted(fd, targets) ==
    { i \in DOMAIN fd.Service :
        \E k \in DOMAIN targets : targets[k] = QualifiedName(fd, i) }

\* C21: extractServicesFromFileDescriptor returns one ServiceInfo for every
\* declared service whose fully-qualified name is a target, in declaration
\* order, each with the file it came from, and nothing else
C21_ExtractsTargetedServices ==
    pf.op = "extractServicesFromFileDescriptor" =>
        LET fd == pf.fileDescriptor
            hit == Targeted(fd, pf.targetServices)
        IN  /\ Len(pf.services) = Cardinality(hit)
            /\ \A i \in hit :
                LET info == pf.services[1 + Cardinality({j \in hit : j < i})]
                IN  /\ info.Name = QualifiedName(fd, i)
                    /\ info.FileDescriptor = fd

C21_Witness ==
    /\ pf.op = "extractServicesFromFileDescriptor"
    /\ pf.fileDescriptor.Package = PkgP
    /\ Len(pf.fileDescriptor.Service) = 3
    /\ Len(pf.services) = 2
    /\ Len(pf.targetServices) = 2
    /\ pf.targetServices[2] \notin
           { QualifiedName(pf.fileDescriptor, i) : i \in DOMAIN pf.fileDescriptor.Service }


(***************************************************************************)
(* The argument payload of the dynamic invoker.                            *)
(***************************************************************************)
\* C22: in reflectionClient.InvokeMethod a payload that is not empty, not
\* "{}" and not decodable gives the parse error and no transport call; an
\* empty payload or "{}" is not decoded and the transport call is made with
\* an empty input message
C22_PayloadDecoding ==
    \A k \in DOMAIN lastInvoke.backend :
        LET call == lastInvoke.backend[k]
        IN  /\ (call.inputJSON \notin {"", "{}"} /\ call.inputJSON \notin ValidJSON)
                => (call.err = "failed to parse input JSON" /\ ~call.wire)
            /\ call.inputJSON \in {"", "{}"}
                => (call.wire /\ call.inputMsg = EmptyMessage)

C22_Witness ==
    /\ lastInvoke.backend # <<>>
    /\ lastInvoke.backend[1].inputJSON = "{\"bad\":1}"
    /\ lastInvoke.backend[1].err = "failed to parse input JSON"
    /\ ~lastInvoke.backend[1].wire


StartsWith(s, p) == Len(s) >= Len(p) /\ SubSeq(s, 1, Len(p)) = p

ReservedName(s) == \E k \in DOMAIN internalPrefixes : StartsWith(s, internalPrefixes[k])

NotReserved(s) == ~ReservedName(s)

\* C23: the names kept by filterInternalServices are exactly the listed
\* names that start with none of grpc.reflection., grpc.health.,
\* grpc.channelz. and grpc.testing., in the order listed; and no service
\* under one of these prefixes is in the catalog after discovery through
\* reflection.
C23_InternalServicesFiltered ==
    /\ pf.op = "reflection.DiscoverServices" /\ pf.err = ""
          => pf.filtered = SelectSeq(pf.listed, NotReserved)
    /\ \A name \in DOMAIN services : NotReserved(name)

C23_Witness ==
    /\ pf.op = "reflection.DiscoverServices"
    /\ Len(pf.listed) = 2
    /\ ReservedName(pf.listed[1])
    /\ pf.listed[2] = SvcAS
    /\ pf.filtered = << SvcAS >>
    /\ SvcAS \in DOMAIN services


\* goroutine g cannot take its next step
Blocked(g) ==
    /\ Running(g)
    /\ \/ Ins(g)[1] = "RLock" /\ ~CanRLock(locks[Ins(g)[2]])
       \/ Ins(g)[1] = "Lock" /\ ~CanLock(locks[Ins(g)[2]])

\* every call in progress waits for a lock that only another waiting call
\* could release
Deadlocked ==
    /\ \E g \in Procs : Running(g)
    /\ \A g \in Procs : Running(g) => Blocked(g)

StatsCalls == {"GetServiceStats", "GetMethodCount", "GetStats"}

\* no statistics call is among calls that wait for each other for ever
NoStatsCallStuck ==
    ~(Deadlocked /\ \E g \in Procs : goroutines[g].op \in StatsCalls)

\* no goroutine holds a read lock twice
NoLockTakenTwice ==
    \A g \in Procs : locks.d.readers[g] <= 1 /\ locks.cm.readers[g] <= 1

\* C24: GetServiceStats, GetMethodCount and GetStats never end up waiting
\* for ever, also when a writer asks for the same lock while they run, and
\* no call takes a lock it already holds.
C24_StatsNeverDeadlock == NoStatsCallStuck /\ NoLockTakenTwice

\* C26: a call through d.reflectionClient that passed the nil test never
\* finds the reference nil.
C26_BackendNotNilAfterCheck ==
    \A g \in Procs : ~goroutines[g].panic


\* C25: a DiscoverServices call that returns an error leaves the catalog as
\* it was before the call.
C25_FailedDiscoveryKeepsCatalog ==
    [][(lastDiscover'.op = "DiscoverServices" /\ lastDiscover'.err # "")
          => services' = services]_vars


\* the errors of an attempt whose transport step failed
TransportErrors ==
    {"failed to connect to gRPC server", "health check failed",
     "connection manager returned nil connection after reconnect"}

\* the step is an attempt of Reconnect
IsAttempt == rc.pc = "try" /\ rc'.attempts = rc.attempts + 1

AttemptSucceeded == rc'.pc = "done" /\ rc'.result.kind = "ok"

\* the attempt rebuilt the backend on the connection the manager holds
BackendRebuilt ==
    /\ cmConn' # Nil
    /\ ~reflectionClient'.isNil
    /\ reflectionClient'.conn = cmConn'
    /\ reflectionClient'.fdCache = EmptyFdCache

\* the catalog is what the discovery of this step found
CatalogOfThisDiscovery ==
    IF lastDiscover'.attempted = <<"descriptor">>
    THEN FromDescriptorStore(services') /\ SameServices(services', lastDiscover'.content)
    ELSE FromReflection(services') /\ SameServices(services', lastDiscover'.found)

\* C27: an attempt of Reconnect first reconnects the transport (the
\* connection the manager held is closed), rebuilds the backend only if that
\* succeeded, and runs discovery only on the rebuilt backend; when the
\* attempt succeeds the backend is on the manager's connection and the
\* catalog is what the discovery of that attempt found.
C27_ReconnectSteps ==
    [][IsAttempt =>
         /\ cmConn # Nil => connState'[cmConn] \in {Shutdown, "Free"}
         /\ IF ~AttemptSucceeded /\ rc'.lastErr.what \in TransportErrors
            THEN /\ reflectionClient' = reflectionClient
                 /\ services' = services
                 /\ lastDiscover'.op = "none"
            ELSE /\ BackendRebuilt
                 /\ lastDiscover'.op = "DiscoverServices"
                 /\ lastDiscover'.hadClient
                 /\ AttemptSucceeded <=> lastDiscover'.err = ""
                 /\ AttemptSucceeded => CatalogOfThisDiscovery]_vars

\* a Reconnect that returned success on its second attempt, with a catalog
\* found by reflection on the new backend
C27_Witness ==
    /\ rc.pc = "done"
    /\ rc.result.kind = "ok"
    /\ rc.attempts = 2
    /\ lastDiscover.op = "DiscoverServices"
    /\ lastDiscover.err = ""
    /\ ~reflectionClient.isNil
    /\ reflectionClient.conn = cmConn
    /\ DOMAIN services # {}
    /\ FromReflection(services)


\* C28: after a Connect that returned an error IsConnected is false and
\* InvokeMethod fails with the not-connected error; after a Connect whose
\* backend health check failed, no transport is left open.
C28_FailedConnectNotConnected ==
    (lastConnect.op = "Connect" /\ lastConnect.err # "")
    => /\ ~IsConnected(cmConn, connState, reflectionClient)
       /\ InvokeMethod(reflectionClient, services, connState, BackgroundCtx,
                       SvcHello, MthDo, "{}", "ok").err = ErrNotConnected
       /\ lastConnect.err = ErrHealthCheck
             => \A id \in ConnIds : connState[id] \in {"Free", Shutdown}


\* the transports that are open
OpenTransports == {id \in ConnIds : connState[id] \notin {"Free", Shutdown}}

\* GetConnection returns no connection or a transport that is not closed
HandleNotClosed ==
    GetConnection(cmConn) = Nil \/ connState[GetConnection(cmConn)] # Shutdown

\* C29: whatever Connect, Reconnect and Close the manager has run,
\* GetConnection returns no connection or a transport the manager has not
\* closed, and at most one transport the manager created is open.
C29_HandleHygiene ==
    /\ HandleNotClosed
    /\ Cardinality(OpenTransports) <= 1


\* C30: HealthCheck of the manager fails without waiting when there is no
\* handle or the transport is in TransientFailure or Shutdown, succeeds
\* without waiting when it is Ready, and otherwise waits for one change of
\* state: it succeeds exactly when the change comes within 5 seconds and
\* before the caller's context ends and leaves the transport Ready.
C30_HealthCheckOutcome ==
    pf.op = "HealthCheck"
    => LET inTime ==
               /\ pf.change.happens
               /\ pf.change.at < 5
               /\ pf.ctx.deadline = NoDeadline \/ pf.change.at < pf.ctx.deadline
       IN  CASE pf.stBefore \in {"none", TransientFailure, Shutdown} ->
                    pf.err # "" /\ ~pf.waited
             [] pf.stBefore = Ready ->
                    pf.err = "" /\ ~pf.waited
             [] OTHER ->
                    /\ pf.waited
                    /\ pf.err = "" <=> (inTime /\ pf.a.st2 = Ready)
                    /\ pf.err = "" => connState[cmConn] = Ready

\* a probe on an idle transport that became ready after 4 seconds, which is
\* in time for a caller without deadline
C30_Witness ==
    /\ pf.op = "HealthCheck"
    /\ pf.stBefore = Idle
    /\ pf.change.happens
    /\ pf.change.at = 4
    /\ pf.ctx.deadline = NoDeadline
    /\ pf.waited
    /\ pf.err = ""
    /\ connState[cmConn] = Ready


\* the last step was a lookup (a Connect leaves pf as it was)
JustLookedUp == pf.op = "getFileDescriptorBySymbol" /\ lastConnect.op = "none"

\* C31: a lookup of a cached symbol returns the cached file and opens no
\* reflection stream; a lookup of a symbol that is not cached opens one
\* stream; when it succeeds the file is cached under the symbol and, if the
\* file has a name, under that name, nothing else in the cache changes, and
\* a lookup by either key then hits; when it fails the cache is as before.
C31_LookupCaches ==
    JustLookedUp
    => LET cache == reflectionClient.fdCache
           keys == {pf.symbol} \cup (IF pf.fd.Name # <<>> THEN {pf.fd.Name} ELSE {})
       IN  IF pf.symbol \in DOMAIN pf.before
           THEN /\ pf.err = ""
                /\ pf.fd = pf.before[pf.symbol]
                /\ pf.sessions = 0
                /\ cache = pf.before
           ELSE /\ pf.sessions = 1
                /\ pf.err # "" => cache = pf.before
                /\ pf.err = ""
                     => /\ DOMAIN cache = DOMAIN pf.before \cup keys
                        /\ \A k \in keys : cache[k] = pf.fd
                        /\ \A k \in DOMAIN pf.before \ keys : cache[k] = pf.before[k]
                        /\ \A k \in keys :
                              LET again == getFileDescriptorBySymbol(
                                               cache, connState, reflectionClient.conn,
                                               pf.server, k)
                              IN  again.sessions = 0 /\ again.fd = pf.fd

\* a lookup by the name of a file that an earlier lookup cached
C31_Witness ==
    /\ JustLookedUp
    /\ pf.symbol = FileF1.Name
    /\ pf.symbol \in DOMAIN pf.before
    /\ SvcAS \in DOMAIN pf.before
    /\ pf.sessions = 0
    /\ pf.fd = FileF1


\* C32: no step removes a key from the descriptor cache of the discoverer's
\* backend.
C32_CacheOnlyGrows ==
    [][DOMAIN reflectionClient.fdCache \subseteq DOMAIN reflectionClient'.fdCache]_vars


\* the last step was a discovery through reflection
JustDiscovered == pf.op = "reflection.DiscoverServices" /\ lastConnect.op = "none"

\* the names of the services a discovery returned
FoundNames == { pf.found[i].Name : i \in DOMAIN pf.found }

\* the listing step of the last discovery failed
ListFailed == ~pf.server.listOk \/ connState[reflectionClient.conn] = Shutdown

\* the file declares a service of that full name
Declares(fd, name) == \E i \in DOMAIN fd.Service : QualifiedName(fd, i) = name

\* some file resolved in the last discovery declares the service
DeclaredInResolvedFile(name) ==
    \E k \in DOMAIN pf.fileDescriptorMap : Declares(pf.fileDescriptorMap[k], name)

\* C33, as stated: discovery through reflection fails exactly when the
\* listing step fails, and a listed service whose file could not be
\* resolved is not among the services returned.
C33_UnresolvedServiceAbsent ==
    JustDiscovered
    => /\ pf.err # "" <=> ListFailed
       /\ \A name \in pf.failed : name \notin FoundNames

\* C33, amended: discovery through reflection fails exactly when the
\* listing step fails; the services returned are the listed services that
\* are not internal and are declared in a file resolved for some listed
\* service, so that a service whose own resolution failed is absent unless
\* the file resolved for another service declares it.
C33_UnresolvedAbsentUnlessDeclared ==
    JustDiscovered
    => /\ pf.err # "" <=> ListFailed
       /\ pf.err = ""
            => /\ FoundNames = { name \in SeqRange(pf.filtered) :
                                   DeclaredInResolvedFile(name) }
               /\ \A name \in pf.failed :
                     name \in FoundNames <=> DeclaredInResolvedFile(name)

\* a discovery that succeeded although the file of a.T could not be
\* resolved: a.S was found, a.T was not
C33_Witness ==
    /\ JustDiscovered
    /\ pf.err = ""
    /\ pf.filtered = <<SvcAS, SvcAT>>
    /\ pf.failed = {SvcAT}
    /\ FoundNames = {SvcAS}


\* the services returned have different names and are listed, non-internal
\* services
FoundOnceAndListed ==
    /\ \A i, j \in DOMAIN pf.found : pf.found[i].Name = pf.found[j].Name => i = j
    /\ FoundNames \subseteq SeqRange(pf.filtered)
    /\ \A name \in FoundNames : ~IsInternal(name)

\* C34, as stated: a discovery through reflection returns no two services of
\* the same name and only listed, non-internal services, and it runs
\* extractServicesFromFileDescriptor once for every distinct file, however
\* many services resolved to it.
C34_OncePerFile ==
    (JustDiscovered /\ pf.err = "")
    => /\ FoundOnceAndListed
       /\ \A k1, k2 \in DOMAIN pf.fileDescriptorMap :
             pf.fileDescriptorMap[k1] = pf.fileDescriptorMap[k2] => k1 = k2

\* C34, amended: a discovery through reflection returns no two services of
\* the same name and only listed, non-internal services; it runs
\* extractServicesFromFileDescriptor once for every distinct file name, and
\* for a file without a name once for every listed service that resolved
\* to it.
C34_OncePerFileName ==
    (JustDiscovered /\ pf.err = "")
    => /\ FoundOnceAndListed
       /\ \A k \in DOMAIN pf.fileDescriptorMap :
             IF pf.fileDescriptorMap[k].Name # <<>>
             THEN k = pf.fileDescriptorMap[k].Name
             ELSE /\ k \in SeqRange(pf.filtered) \ pf.failed
                  /\ k \in DOMAIN pf.server.files
                  /\ pf.server.files[k] = pf.fileDescriptorMap[k]
       /\ \A name \in SeqRange(pf.filtered) \ pf.failed :
             \E k \in DOMAIN pf.fileDescriptorMap :
                 k = (IF reflectionClient.fdCache[name].Name # <<>>
                      THEN reflectionClient.fdCache[name].Name ELSE name)

\* two listed services that resolved to the same named file, which was
\* processed once and gave both
C34_Witness ==
    /\ JustDiscovered
    /\ pf.err = ""
    /\ pf.filtered = <<SvcAS, SvcAT>>
    /\ pf.failed = {}
    /\ DOMAIN pf.fileDescriptorMap = {FileF1.Name}
    /\ FoundNames = {SvcAS, SvcAT}


(***************************************************************************)
(* Methods whose types do not resolve.                                     *)
(***************************************************************************)
\* the file can be built and the type is a message the file or the global
\* registry declares
TypeResolves(fd, typeName) ==
    /\ \A t \in ReferredTypes(fd) : t \in DeclaredMessages(fd) \cup GlobalMessages
    /\ TrimPrefix(typeName, <<".">>) \in DeclaredMessages(fd) \cup GlobalMessages

\* the positions of the methods of a declared service whose input and output
\* type both resolve
ResolvedMethods(fd, i) ==
    { j \in DOMAIN fd.Service[i].Method :
        /\ TypeResolves(fd, fd.Service[i].Method[j].InputType)
        /\ TypeResolves(fd, fd.Service[i].Method[j].OutputType) }

RECURSIVE RefsAreAncestors(_, _, _)
RefsAreAncestors(fullName, schema, ancestors) ==
    \A i \in DOMAIN descs[fullName].fields :
        LET field == descs[fullName].fields[i]
            property == schema.properties[field.name]
            s == IF IsList(field) THEN property.items ELSE property
        IN  field.kind = "message" =>
                IF "$ref" \in DOMAIN s
                THEN field.message \in ancestors \cup {fullName}
                ELSE "properties" \in DOMAIN s =>
                        RefsAreAncestors(field.message, s, ancestors \cup {fullName})

\* the extractor alone: every $ref it emits names an ancestor
ExtractorRefsAreAncestors ==
    (pf.op = "ExtractMessageSchema" /\ pf.err = "" /\ pf.schema # Overflow)
        => RefsAreAncestors(pf.type, pf.schema, {})

\* C36: in the schema either compiler returns, a $ref stands only where the
\* type is an ancestor of the position, so a type reached through two sibling
\* fields is expanded in both
C36_RefOnlyForAncestor ==
    /\ ExtractorRefsAreAncestors
    /\ (pf.op = "BuildTool" /\ pf.err = "" /\ pf.schema # Overflow)
        => RefsAreAncestors(pf.method.InputDescriptor, pf.schema, {})


(***************************************************************************)
(* The schema cache of the tool builder.                                   *)
(***************************************************************************)
\* the document a generateMessageSchema result stands for
ValueOf(r) == SchemaValue(r.cache, r.schema)

\* what a Builder that compiled nothing before returns for a type
FreshSchema(fullName) == ValueOf(generateMessageSchema(EmptyCache, {}, fullName, 0))

\* C37: the input schema a BuildTool call returns, whatever the builder
\* compiled before, is the schema a builder with an empty cache returns for
\* the same type
C37_MemoizationTransparent ==
    (pf.op = "BuildTool" /\ pf.err = "")
        => pf.schema = FreshSchema(pf.method.InputDescriptor)


(***************************************************************************)
(* Schemas the tool builder handed out.                                    *)
(***************************************************************************)
\* C38: a BuildTool call leaves the schemas handed out before as they were:
\* the map of every type compiled before, which is what the earlier tools
\* hold, is the same document after the call
C38_ReturnedSchemasFrozen ==
    [][\A t \in DOMAIN schemaCache :
          t \in DOMAIN schemaCache'
          /\ SchemaValue(schemaCache', Shared(t)) = SchemaValue(schemaCache, Shared(t))]_vars


(***************************************************************************)
(* Field comments in the schema extractor.                                 *)
(***************************************************************************)
\* the last step applied extractFieldSchema to a field and it succeeded
FieldCompiled == pf.op = "extractFieldSchema" /\ pf.err = ""

\* C39: the schema extractFieldSchema returns for a field with a comment has
\* that comment as its description, whether the field is singular, repeated
\* or a map; for a field without a comment it has no description
C39_FieldDescriptionIsComment ==
    FieldCompiled =>
        IF pf.field.comment # ""
        THEN "description" \in DOMAIN pf.schema
             /\ pf.schema.description = pf.field.comment
        ELSE "description" \notin DOMAIN pf.schema

\* the same for repeated and map fields only
ListAndMapDescribed ==
    (FieldCompiled /\ (IsList(pf.field) \/ IsMap(pf.field))) =>
        IF pf.field.comment # ""
        THEN "description" \in DOMAIN pf.schema
             /\ pf.schema.description = pf.field.comment
        ELSE "description" \notin DOMAIN pf.schema


(***************************************************************************)
(* The tools of a catalog.                                                 *)
(***************************************************************************)
\* the methods of a service that get a tool: not streaming, and BuildTool
\* succeeds for them
Buildable(serviceName, method) ==
    /\ ~method.IsClientStreaming
    /\ ~method.IsServerStreaming
    /\ BuildTool(EmptyCache, serviceName, method).err = ""

\* the names of the tools of the buildable methods, service by service in the
\* order of the range over the map, method by method in catalog order
RECURSIVE ExpectedNames(_, _, _)
ExpectedNames(catalog, order, k) ==
    IF k > Len(order) THEN <<>>
    ELSE LET kept == SelectSeq(catalog[order[k]].Methods,
                               LAMBDA m : Buildable(order[k], m))
         IN  [i \in DOMAIN kept |-> generateToolName(order[k], kept[i].Name)]
             \o ExpectedNames(catalog, order, k + 1)

\* BuildTools returns no error, no tool for a streaming method, and every
\* tool it returns has a name with an underscore, a description and an input
\* schema
ToolsWellFormed ==
    pf.op = "BuildTools" =>
        /\ pf.err = ""
        /\ \A k \in DOMAIN pf.tools :
            /\ pf.tools[k].Name # <<>>
            /\ \E i \in DOMAIN pf.tools[k].Name : pf.tools[k].Name[i] = "_"
            /\ pf.tools[k].Description # ""
            /\ pf.tools[k].InputSchema # <<>>
            /\ \E s \in DOMAIN pf.catalog :
                \E j \in DOMAIN pf.catalog[s].Methods :
                    /\ pf.tools[k].Name = generateToolName(s, pf.catalog[s].Methods[j].Name)
                    /\ ~pf.catalog[s].Methods[j].IsClientStreaming
                    /\ ~pf.catalog[s].Methods[j].IsServerStreaming

\* C40: BuildTools returns no error and exactly one tool for every method
\* that is not streaming and for which BuildTool succeeds, none for the other
\* methods, whatever the other methods of the catalog are; every tool has a
\* name with an underscore, a description and an input schema
C40_BuildToolsSkipsFailures ==
    /\ ToolsWellFormed
    /\ pf.op = "BuildTools" =>
            [k \in DOMAIN pf.tools |-> pf.tools[k].Name]
                = ExpectedNames(pf.catalog, pf.order, 1)

====
